---- MODULE Spec2Model ----
(***************************************************************************)
(* Model of mutt-rs (`mu`): the HTML/markdown-to-terminal renderer of      *)
(* src/src/render.rs.  A text is a sequence of characters; a character is  *)
(* a one-letter string, or the name of a code point that has no printable  *)
(* ASCII form ("ESC", "U+200B", "U+00C9", ...).  Regular expressions are   *)
(* modelled by the leftmost-first scan the regex crate performs.           *)
(***************************************************************************)
EXTENDS Integers, Sequences, FiniteSets, TLC

VARIABLES
    pc,          \* position of the call: "call", "w3m", "convert", "clean", "again", "done"
    content,     \* the input text handed to the operation
    strip_urls,  \* the strip_urls flag
    text,        \* render_html: the text the conversion strategy produced
    output,      \* the text the operation returned
    output2,     \* the text returned when the operation is re-applied to output
    result,      \* "none", "Ok" or "Err": the Result of render
    tried,       \* the conversion strategies tried so far, in order
    items,       \* add_colors: the `result` vector, one entry per pushed element
    table_row,   \* is_table_row: the value returned for content
    sep_input,   \* clean_markdown: the text that reaches the separator filter
    layout_input, \* clean_text: the text handed to add_colors
    sync_pc,      \* sync: "idle", "channels", "mbsync", "recent", "notify", "done"
    quiet,        \* sync: the quiet flag
    quick,        \* sync: the quick flag
    mbsyncrc,     \* ~/.mbsyncrc: whether it can be read (ok), and its text
    channels,     \* sync: the channel names get_mbsync_channels returned
    synced,       \* sync: the number of channels whose mbsync run succeeded
    sync_stats,   \* sync: the channels whose run showed activity, with their stats
    new_messages, \* sync: the number of recent messages parse_new_messages returned
    commands,     \* the external commands run so far, in order
    exits,        \* how each of these commands ended: "ok", "fail" or "spawn"
    printed,      \* what sync printed so far, in order
    sync_result,  \* "none", "Ok" or "Err": the Result of sync
    pv_pc,           \* preview: "idle", "show", "lines", "html_only", "done"
    seen,            \* preview: the lines of the notmuch output read so far
    in_headers,      \* preview: inside a header block
    in_body,         \* preview: inside a body block
    body_type,       \* preview: the content type of the last part opened
    body_content,    \* preview: the body text accumulated for the current part
    headers_printed, \* preview: a header block has been closed
    body_printed,    \* preview: print_body has been called by preview
    has_html_only,   \* preview: a part held only the text/html placeholder
    shown,           \* what preview wrote to stdout, in order
    html_only_runs,  \* the number of calls of preview_html_only
    pv_result,       \* "none", "Ok" or "Err": the Result of preview
    sr_pc,      \* search: "idle", "list", "fzf", "done"
    mail_list,  \* search: the standard output of `notmuch search`
    fzf_exit,   \* search: "none", or how fzf ended: "ok", "fail"
    fzf_stdout, \* search: the standard output of fzf
    cmd_file,   \* the content of the file CMD_FILE
    writes,     \* search: the number of times CMD_FILE was overwritten
    sr_result   \* "none", "Ok" or "Err": the Result of search

render_vars ==
    <<pc, content, strip_urls, text, output, output2, result, tried, items, table_row, sep_input, layout_input>>

sync_vars == <<sync_pc, quiet, quick, mbsyncrc, channels, synced, sync_stats, new_messages, commands, exits, printed, sync_result>>

preview_vars == <<pv_pc, seen, in_headers, in_body, body_type, body_content, headers_printed, body_printed, has_html_only, shown, html_only_runs, pv_result>>

search_vars == <<sr_pc, mail_list, fzf_exit, fzf_stdout, cmd_file, writes, sr_result>>

vars == <<render_vars, sync_vars, preview_vars, search_vars>>

\* search has not been called
SearchIdle ==
    /\ sr_pc = "idle"
    /\ mail_list = <<>>
    /\ fzf_exit = "none"
    /\ fzf_stdout = <<>>
    /\ cmd_file = <<>>
    /\ writes = 0
    /\ sr_result = "none"

\* preview has not been called
PreviewIdle ==
    /\ pv_pc = "idle"
    /\ seen = <<>>
    /\ in_headers = FALSE
    /\ in_body = FALSE
    /\ body_type = <<>>
    /\ body_content = <<>>
    /\ headers_printed = FALSE
    /\ body_printed = FALSE
    /\ has_html_only = FALSE
    /\ shown = <<>>
    /\ html_only_runs = 0
    /\ pv_result = "none"

\* sync has not been called
SyncIdle ==
    /\ sync_pc = "idle"
    /\ quiet = FALSE
    /\ quick = FALSE
    /\ mbsyncrc = [ok |-> FALSE, text |-> <<>>]
    /\ channels = <<>>
    /\ synced = 0
    /\ sync_stats = <<>>
    /\ new_messages = 0
    /\ commands = <<>>
    /\ exits = <<>>
    /\ printed = <<>>
    /\ sync_result = "none"

(***************************************************************************)
(* Characters                                                              *)
(***************************************************************************)
LowerSeq == <<"a","b","c","d","e","f","g","h","i","j","k","l","m",
              "n","o","p","q","r","s","t","u","v","w","x","y","z">>

UpperSeq == <<"A","B","C","D","E","F","G","H","I","J","K","L","M",
              "N","O","P","Q","R","S","T","U","V","W","X","Y","Z">>

LowerSet == {LowerSeq[i] : i \in DOMAIN LowerSeq}

UpperSet == {UpperSeq[i] : i \in DOMAIN UpperSeq}

\* U+00C9 is E-acute (upper case), U+00E9 e-acute (lower case)
is_alphabetic(c) == c \in LowerSet \cup UpperSet \cup {"U+00C9", "U+00E9"}

char_to_uppercase(c) ==
    IF c \in LowerSet THEN UpperSeq[CHOOSE i \in DOMAIN LowerSeq : LowerSeq[i] = c]
    ELSE IF c = "U+00E9" THEN "U+00C9"
    ELSE c

char_to_lowercase(c) ==
    IF c \in UpperSet THEN LowerSeq[CHOOSE i \in DOMAIN UpperSeq : UpperSeq[i] = c]
    ELSE IF c = "U+00C9" THEN "U+00E9"
    ELSE c

\* the five code points clean_text and clean_markdown delete
InvisibleChars == {"U+034F", "U+200B", "U+200C", "U+200D", "U+FEFF"}

\* the box-drawing characters of format_table
BoxChars == {"U+250C", "U+2500", "U+2510", "U+2502", "U+2514", "U+2518"}

\* number of UTF-8 bytes of a character: what str::len counts
utf8_len(c) ==
    IF c \in {"U+00A0", "U+00C9", "U+00E9", "U+034F"} THEN 2
    ELSE IF c \in InvisibleChars \cup BoxChars THEN 3
    ELSE 1

\* char::is_whitespace and the regex class \s, over the characters of the
\* model; U+00A0 is the no-break space
WsChars == {" ", "\t", "\n", "\r", "U+00A0"}

(***************************************************************************)
(* Strings: the str methods the code calls                                 *)
(***************************************************************************)
Rep(c, n) == [i \in 1..n |-> c]

RECURSIVE Concat(_)
Concat(ss) == IF ss = <<>> THEN <<>> ELSE Head(ss) \o Concat(Tail(ss))

\* str::len: the length in bytes
byte_len(s) ==
    Len(s) + Cardinality({i \in 1..Len(s) : utf8_len(s[i]) = 2})
           + 2 * Cardinality({i \in 1..Len(s) : utf8_len(s[i]) = 3})

\* pattern p occurs in s at index i
At(s, i, p) ==
    /\ i >= 1
    /\ i + Len(p) - 1 <= Len(s)
    /\ \A k \in 1..Len(p) : s[i + k - 1] = p[k]

starts_with(s, p) == At(s, 1, p)

ends_with(s, p) == At(s, Len(s) - Len(p) + 1, p)

contains(s, p) == \E i \in 1..(Len(s) - Len(p) + 1) : At(s, i, p)

\* str::find: index of the first occurrence of p in s, 0 when there is none
find(s, p) ==
    IF contains(s, p)
    THEN CHOOSE i \in 1..Len(s) : At(s, i, p) /\ \A j \in 1..(i - 1) : ~At(s, j, p)
    ELSE 0

to_lowercase(s) == [i \in 1..Len(s) |-> char_to_lowercase(s[i])]

to_uppercase(s) == [i \in 1..Len(s) |-> char_to_uppercase(s[i])]

trim_start(s) ==
    IF \A i \in 1..Len(s) : s[i] \in WsChars THEN <<>>
    ELSE SubSeq(s, CHOOSE i \in 1..Len(s) :
                       s[i] \notin WsChars /\ \A j \in 1..(i - 1) : s[j] \in WsChars,
                Len(s))

trim_end(s) ==
    IF \A i \in 1..Len(s) : s[i] \in WsChars THEN <<>>
    ELSE SubSeq(s, 1, CHOOSE i \in 1..Len(s) :
                          s[i] \notin WsChars /\ \A j \in (i + 1)..Len(s) : s[j] \in WsChars)

trim(s) == trim_end(trim_start(s))

\* str::lines: split at "\n", a "\r" before the "\n" goes with it, and the
\* empty piece after a final "\n" is not a line
RECURSIVE lines(_)
lines(s) ==
    IF s = <<>> THEN <<>>
    ELSE LET k == find(s, <<"\n">>)
             strip_cr(l) == IF Len(l) > 0 /\ l[Len(l)] = "\r"
                            THEN SubSeq(l, 1, Len(l) - 1) ELSE l
         IN IF k = 0 THEN <<s>>
            ELSE <<strip_cr(SubSeq(s, 1, k - 1))>> \o lines(SubSeq(s, k + 1, Len(s)))

\* [String]::join("\n")
RECURSIVE join(_)
join(ls) ==
    IF ls = <<>> THEN <<>>
    ELSE IF Len(ls) = 1 THEN ls[1]
    ELSE ls[1] \o <<"\n">> \o join(Tail(ls))

\* String::replace(c, ""): delete every occurrence of character c
remove_char(s, c) == SelectSeq(s, LAMBDA x : x # c)

\* the leftmost of a non-empty set of match positions
Leftmost(S) == CHOOSE k \in S : \A m \in S : k <= m

\* last index of the maximal run of characters outside `stops` that starts
\* at index j (j - 1 when the run is empty): a greedy [^...]* of the regex crate
RunEnd(s, j, stops) ==
    IF \E k \in j..Len(s) : s[k] \in stops
    THEN (CHOOSE k \in j..Len(s) : s[k] \in stops /\ \A m \in j..(k - 1) : s[m] \notin stops) - 1
    ELSE Len(s)

\* length of a match of `https?://` at index i, 0 when there is none
SchemeLen(s, i) ==
    IF At(s, i, <<"h","t","t","p","s",":","/","/">>) THEN 8
    ELSE IF At(s, i, <<"h","t","t","p",":","/","/">>) THEN 7
    ELSE 0

(***************************************************************************)
(* strip_long_urls                                                         *)
(***************************************************************************)
\* the {40,} of the pattern of strip_long_urls
StripUrlMin == 40

\* the pattern with {41,}: a tail of exactly `min` characters is not matched
LongUrlEndOffByOne(s, i, stops, min) ==
    LET n == SchemeLen(s, i)
        e == RunEnd(s, i + n, stops)
    IN IF n > 0 /\ e - (i + n) + 1 > min THEN e ELSE 0

\* last index of the match of `https?://[^\s]{40,}` that starts at i, 0 if none
LongUrlEnd(s, i, stops, min) ==
    LET n == SchemeLen(s, i)
        e == RunEnd(s, i + n, stops)
    IN IF n > 0 /\ e - (i + n) + 1 >= min THEN e ELSE 0

\* Regex::replace_all(text, "") from index i on: copy the text up to the
\* leftmost match, skip the match, go on after it
RECURSIVE RemoveLongUrls(_, _, _, _)
RemoveLongUrls(s, i, stops, min) ==
    LET hits == {k \in i..Len(s) : LongUrlEnd(s, k, stops, min) > 0}
    IN IF hits = {} THEN SubSeq(s, i, Len(s))
       ELSE LET k == Leftmost(hits)
            IN SubSeq(s, i, k - 1)
                   \o RemoveLongUrls(s, LongUrlEnd(s, k, stops, min) + 1, stops, min)

strip_long_urls(t) == RemoveLongUrls(t, 1, WsChars, StripUrlMin)

(***************************************************************************)
(* Layout / colouring engine                                               *)
(***************************************************************************)
RESET == <<"ESC", "[", "0", "m">>

BOLD == <<"ESC", "[", "1", "m">>

CYAN == <<"ESC", "[", "3", "6", "m">>

YELLOW == <<"ESC", "[", "3", "3", "m">>

DIM == <<"ESC", "[", "2", "m">>

\* is_table_row: `trimmed.len() < 15`
TableRowMinLen == 15

\* is_table_row: `label.len() >= 3`
LabelMinLen == 3

\* is_table_row: `label.len() <= 30`
LabelMaxLen == 30

\* is_table_row with `after_colon.starts_with(" ")`: one space is a gap
is_table_row_one_space(line) ==
    LET trimmed == trim(line)
        pos == find(trimmed, <<":">>)
        after_colon == SubSeq(trimmed, pos + 1, Len(trimmed))
        has_gap == starts_with(after_colon, <<" ">>)
        has_value == trim(after_colon) # <<>>
        label == SubSeq(trimmed, 1, pos - 1)
        valid_label == /\ byte_len(label) >= LabelMinLen
                       /\ byte_len(label) <= LabelMaxLen
                       /\ ~contains(label, <<"/", "/">>)
                       /\ ~contains(label, <<"@">>)
    IN IF trimmed = <<>> \/ byte_len(trimmed) < TableRowMinLen THEN FALSE
       ELSE IF pos = 0 THEN FALSE
       ELSE has_gap /\ has_value /\ valid_label

is_table_row(line) ==
    LET trimmed == trim(line)
        pos == find(trimmed, <<":">>)
        after_colon == SubSeq(trimmed, pos + 1, Len(trimmed))
        has_gap == \/ starts_with(after_colon, <<" ", " ">>)
                   \/ starts_with(after_colon, <<" ", "\t">>)
        has_value == trim(after_colon) # <<>>
        label == SubSeq(trimmed, 1, pos - 1)
        valid_label == /\ byte_len(label) >= LabelMinLen
                       /\ byte_len(label) <= LabelMaxLen
                       /\ ~contains(label, <<"/", "/">>)
                       /\ ~contains(label, <<"@">>)
    IN IF trimmed = <<>> \/ byte_len(trimmed) < TableRowMinLen THEN FALSE
       ELSE IF pos = 0 THEN FALSE
       ELSE has_gap /\ has_value /\ valid_label

\* str::split_whitespace: the maximal runs of non-whitespace characters
RECURSIVE split_whitespace(_)
split_whitespace(s) ==
    LET t == trim_start(s)
        e == RunEnd(t, 1, WsChars)
    IN IF t = <<>> THEN <<>>
       ELSE <<SubSeq(t, 1, e)>> \o split_whitespace(SubSeq(t, e + 1, Len(t)))

\* is_header: `trimmed.len() > 60`
HeaderMaxLen == 60

\* is_header: `leading_spaces > 10`
CenteredMinIndent == 10

\* is_header: `trimmed.len() < 50`
CenteredMaxLen == 50

\* is_header: `words.len() >= 2`
CapsMinWords == 2

\* is_header: `letters.len() >= 2`
CapsMinLetters == 2

is_header(line) ==
    LET trimmed == trim(line)
        leading_spaces == byte_len(line) - byte_len(trim_start(line))
        is_centered == leading_spaces > CenteredMinIndent /\ byte_len(trimmed) < CenteredMaxLen
        words == split_whitespace(trimmed)
        letters(w) == SelectSeq(w, is_alphabetic)
        is_all_caps == /\ Len(words) >= CapsMinWords
                       /\ \A k \in 1..Len(words) :
                              /\ byte_len(letters(words[k])) >= CapsMinLetters
                              /\ letters(words[k]) = to_uppercase(letters(words[k]))
    IN IF trimmed = <<>> \/ byte_len(trimmed) > HeaderMaxLen THEN FALSE
       ELSE is_centered \/ is_all_caps

\* visual_width: `s.chars().count()`
visual_width(s) == Len(s)

\* the loop of format_table_row from character i on, where `current_word` is
\* empty: the loop pushes `current_word` at the first character that is a
\* space, a tab, or a ':' closing a label, and starts over after it
RECURSIVE FormatRowFrom(_, _)
FormatRowFrom(line, i) ==
    LET current_word(k) == SubSeq(line, i, k)
        w(k) == trim(current_word(k))
        is_label(k) == /\ line[k] = ":"
                       /\ w(k) # <<>>
                       /\ byte_len(w(k)) > 1
                       /\ is_alphabetic(w(k)[1])
        hits == {k \in i..Len(line) : is_label(k) \/ line[k] = " " \/ line[k] = "\t"}
    IN IF hits = {} THEN SubSeq(line, i, Len(line))
       ELSE LET k == Leftmost(hits)
            IN (IF is_label(k) THEN YELLOW \o w(k) \o RESET ELSE current_word(k))
                   \o FormatRowFrom(line, k + 1)

format_table_row(line) == FormatRowFrom(line, 1)

\* maximum of a non-empty sequence of numbers; `unwrap_or(0)` for the empty one
MaxOf(ns) ==
    IF ns = <<>> THEN 0
    ELSE CHOOSE m \in {ns[k] : k \in DOMAIN ns} : \A k \in DOMAIN ns : ns[k] <= m

\* format_table: `box_width = max_len + 2`
BoxPadding == 2

\* format_table, as the vector of lines it joins with "\n"
format_table_lines(ls) ==
    LET max_len == MaxOf([k \in DOMAIN ls |-> visual_width(ls[k])])
        box_width == max_len + BoxPadding
        border(l, r) == DIM \o <<l>> \o Rep("U+2500", box_width) \o <<r>> \o RESET
        row(line) ==
            LET formatted == format_table_row(line)
                vis_len == visual_width(line)
                padding == box_width - vis_len - 1
            IN DIM \o <<"U+2502">> \o RESET \o <<" ">> \o formatted
                   \o Rep(" ", padding) \o DIM \o <<"U+2502">> \o RESET
    IN <<border("U+250C", "U+2510")>>
           \o [k \in DOMAIN ls |-> row(ls[k])]
           \o <<border("U+2514", "U+2518")>>

format_table(ls) == join(format_table_lines(ls))

\* add_colors: `line.trim().len() < 50` of the section-title test
SectionMaxLen == 50

\* the header / section-title / plain branch of add_colors for one line
color_line(line) ==
    IF is_header(line) THEN BOLD \o CYAN \o line \o RESET
    ELSE IF /\ ends_with(trim(line), <<":">>)
            /\ byte_len(trim(line)) < SectionMaxLen
            /\ ~contains(line, <<" ", " ">>)
    THEN BOLD \o YELLOW \o line \o RESET
    ELSE line

\* the inner loop with `is_table_row(lines[j])` alone: a blank line ends the block
RECURSIVE BlockEndAtBlank(_, _)
BlockEndAtBlank(ls, j) ==
    IF j <= Len(ls) /\ is_table_row(ls[j])
    THEN BlockEndAtBlank(ls, j + 1)
    ELSE j

\* the inner loop of add_colors: the index j at which the block that
\* starts at line i stops
RECURSIVE BlockEnd(_, _)
BlockEnd(ls, j) ==
    IF j <= Len(ls) /\ (is_table_row(ls[j]) \/ trim(ls[j]) = <<>>)
    THEN BlockEnd(ls, j + 1)
    ELSE j

\* add_colors with `table_lines.len() > 2`: two rows are not boxed
RECURSIVE AddColorsFromThreeRows(_, _)
AddColorsFromThreeRows(ls, i) ==
    IF i > Len(ls) THEN <<>>
    ELSE LET line == ls[i]
             j == BlockEnd(ls, i + 1)
             table_lines == <<line>> \o SelectSeq(SubSeq(ls, i + 1, j - 1),
                                                  LAMBDA l : trim(l) # <<>>)
         IN IF is_table_row(line) /\ Len(table_lines) > 2
            THEN <<format_table(table_lines)>> \o AddColorsFromThreeRows(ls, j)
            ELSE <<color_line(line)>> \o AddColorsFromThreeRows(ls, i + 1)

\* the outer loop of add_colors from line i on: the `result` vector
RECURSIVE AddColorsFrom(_, _)
AddColorsFrom(ls, i) ==
    IF i > Len(ls) THEN <<>>
    ELSE LET line == ls[i]
             j == BlockEnd(ls, i + 1)
             table_lines == <<line>> \o SelectSeq(SubSeq(ls, i + 1, j - 1),
                                                  LAMBDA l : trim(l) # <<>>)
         IN IF is_table_row(line) /\ Len(table_lines) >= 2
            THEN <<format_table(table_lines)>> \o AddColorsFrom(ls, j)
            ELSE <<color_line(line)>> \o AddColorsFrom(ls, i + 1)

add_colors_result(t) == AddColorsFrom(lines(t), 1)

add_colors(t) == join(add_colors_result(t))

(***************************************************************************)
(* Regex helpers shared by clean_text and clean_markdown                   *)
(***************************************************************************)
\* last index of the maximal run of characters of `set` that starts at index
\* j (j - 1 when the run is empty): a greedy \s* or [-:]* of the regex crate
SpanEnd(s, j, set) ==
    IF \E k \in j..Len(s) : s[k] \notin set
    THEN (CHOOSE k \in j..Len(s) : s[k] \notin set /\ \A m \in j..(k - 1) : s[m] \in set) - 1
    ELSE Len(s)

\* (?m)^ : the start of the text or the position after a "\n"
LineStart(s, i) == i = 1 \/ (i >= 2 /\ i <= Len(s) + 1 /\ s[i - 1] = "\n")

remove_invisible(s) ==
    remove_char(remove_char(remove_char(remove_char(remove_char(s,
        "U+034F"), "U+200B"), "U+200C"), "U+200D"), "U+FEFF")

\* the {3,} of the pattern `\n{3,}` of clean_text
TextNewlineRun == 3

\* the {3,} of the pattern `\n{3,}` of clean_markdown
MarkdownNewlineRun == 3

\* the pattern `\n{3}`: a match takes `min` newlines and no more
RECURSIVE CollapseNewlinesLazy(_, _, _)
CollapseNewlinesLazy(s, i, min) ==
    LET hits == {k \in i..Len(s) : SpanEnd(s, k, {"\n"}) - k + 1 >= min}
    IN IF hits = {} THEN SubSeq(s, i, Len(s))
       ELSE LET k == Leftmost(hits)
            IN SubSeq(s, i, k - 1) \o <<"\n", "\n">>
                   \o CollapseNewlinesLazy(s, k + min, min)

\* replace_all of `\n{min,}` by "\n\n"
RECURSIVE CollapseNewlines(_, _, _)
CollapseNewlines(s, i, min) ==
    LET hits == {k \in i..Len(s) : SpanEnd(s, k, {"\n"}) - k + 1 >= min}
    IN IF hits = {} THEN SubSeq(s, i, Len(s))
       ELSE LET k == Leftmost(hits)
            IN SubSeq(s, i, k - 1) \o <<"\n", "\n">>
                   \o CollapseNewlines(s, SpanEnd(s, k, {"\n"}) + 1, min)

\* the {40,} of the long-URL pattern of clean_text
TextUrlMin == 40

\* the text clean_text holds when it calls add_colors
clean_text_before_colors(t, strip) ==
    LET o1 == IF strip THEN RemoveLongUrls(t, 1, WsChars, TextUrlMin) ELSE t
        o2 == remove_invisible(o1)
    IN CollapseNewlines(o2, 1, TextNewlineRun)

clean_text(t, strip) == trim(add_colors(clean_text_before_colors(t, strip)))

(***************************************************************************)
(* clean_markdown, one operator per step                                   *)
(***************************************************************************)
Dashes3 == <<"-", "-", "-">>

\* frontmatter_re `(?m)^---\n[\s\S]*?\n---\n?`, Regex::replace (first match only)
remove_frontmatter(s) ==
    LET opens(p) == LineStart(s, p) /\ At(s, p, Dashes3 \o <<"\n">>)
        closes(p, q) == q >= p + 4 /\ At(s, q, <<"\n">> \o Dashes3)
        matches(p) == opens(p) /\ \E q \in 1..Len(s) : closes(p, q)
    IN IF ~\E p \in 1..Len(s) : matches(p) THEN s
       ELSE LET p == CHOOSE p \in 1..Len(s) : matches(p) /\ \A r \in 1..(p - 1) : ~matches(r)
                q == CHOOSE q \in 1..Len(s) :
                         closes(p, q) /\ \A r \in 1..(q - 1) : ~closes(p, r)
                e == IF q + 4 <= Len(s) /\ s[q + 4] = "\n" THEN q + 4 ELSE q + 3
            IN SubSeq(s, 1, p - 1) \o SubSeq(s, e + 1, Len(s))

\* dashes_re `(?m)^---$\n?`, replace_all by ""
RECURSIVE RemoveDashLines(_, _)
RemoveDashLines(s, i) ==
    LET hits == {k \in i..Len(s) : /\ LineStart(s, k)
                                   /\ At(s, k, Dashes3)
                                   /\ (k + 3 > Len(s) \/ s[k + 3] = "\n")}
    IN IF hits = {} THEN SubSeq(s, i, Len(s))
       ELSE LET k == Leftmost(hits)
            IN SubSeq(s, i, k - 1)
                   \o RemoveDashLines(s, IF k + 3 <= Len(s) THEN k + 4 ELSE k + 3)

Mailto == <<"m", "a", "i", "l", "t", "o", ":">>

\* length of the target prefix of a link at index i: `https?://` for link_re,
\* `mailto:` for mailto_re; 0 when it is not there
TargetLen(s, i, mailto) ==
    IF mailto THEN (IF At(s, i, Mailto) THEN Len(Mailto) ELSE 0) ELSE SchemeLen(s, i)

\* the match of `\[([^\]]+)\]\(<target>[^)]+\)` that starts at i:
\* [r, e] with r the last index of group 1 and e the last index of the match,
\* <<>> when there is none
LinkMatch(s, i, mailto) ==
    LET r == RunEnd(s, i + 1, {"]"})
        n == TargetLen(s, r + 3, mailto)
        e == RunEnd(s, r + 3 + n, {")"})
    IN IF /\ i <= Len(s) /\ s[i] = "["
          /\ r >= i + 1
          /\ At(s, r + 1, <<"]", "(">>)
          /\ n > 0
          /\ e >= r + 3 + n
          /\ e + 1 <= Len(s)
       THEN <<r, e + 1>>
       ELSE <<>>

\* link_re / mailto_re, replace_all by "$1"
RECURSIVE RewriteLinks(_, _, _)
RewriteLinks(s, i, mailto) ==
    LET hits == {k \in i..Len(s) : LinkMatch(s, k, mailto) # <<>>}
    IN IF hits = {} THEN SubSeq(s, i, Len(s))
       ELSE LET k == Leftmost(hits)
                m == LinkMatch(s, k, mailto)
            IN SubSeq(s, i, k - 1) \o SubSeq(s, k + 1, m[1])
                   \o RewriteLinks(s, m[2] + 1, mailto)

\* bare_url_re `<https?://[^>]+>`, replace_all by ""
RECURSIVE RemoveAngleUrls(_, _)
RemoveAngleUrls(s, i) ==
    LET n(k) == SchemeLen(s, k + 1)
        e(k) == RunEnd(s, k + 1 + n(k), {">"})
        hits == {k \in i..Len(s) :
                    s[k] = "<" /\ n(k) > 0 /\ e(k) >= k + 1 + n(k) /\ e(k) + 1 <= Len(s)}
    IN IF hits = {} THEN SubSeq(s, i, Len(s))
       ELSE LET k == Leftmost(hits)
            IN SubSeq(s, i, k - 1) \o RemoveAngleUrls(s, e(k) + 2)

\* the {40,} of the long-URL pattern of clean_markdown
MarkdownUrlMin == 40

\* the `if strip_urls` block of clean_markdown
strip_markdown_urls(s) ==
    LET a == RewriteLinks(s, 1, FALSE)
        b == RemoveAngleUrls(a, 1)
        c == RemoveLongUrls(b, 1, WsChars \cup {")", "]"}, MarkdownUrlMin)
    IN RewriteLinks(c, 1, TRUE)

\* `text.is_empty() || text.chars().all(|c| c == '-' || c == ' ')`
is_blank_cell(t) == \A k \in 1..Len(t) : t[k] \in {"-", " "}

Stars == <<"*", "*">>

\* the closure of the list_single_cell_re pass, `^(-\s*)\|\s*([^|]+?)\s*\|$`
list_single_cell(line) ==
    LET k == SpanEnd(line, 2, WsChars)
        n == Len(line)
        cell == trim(SubSeq(line, k + 2, n - 1))
    IN IF /\ n >= k + 3
          /\ line[1] = "-"
          /\ line[k + 1] = "|"
          /\ line[n] = "|"
          /\ ~contains(SubSeq(line, k + 2, n - 1), <<"|">>)
       THEN IF is_blank_cell(cell) THEN <<>>
            ELSE SubSeq(line, 1, k) \o Stars \o cell \o Stars
       ELSE line

\* the closure of the single_cell_re pass, `^\|\s*([^|]+?)\s*\|$`
single_cell(line) ==
    LET n == Len(line)
        cell == trim(SubSeq(line, 2, n - 1))
    IN IF /\ n >= 3
          /\ line[1] = "|"
          /\ line[n] = "|"
          /\ ~contains(SubSeq(line, 2, n - 1), <<"|">>)
       THEN IF is_blank_cell(cell) THEN <<>> ELSE Stars \o cell \o Stars
       ELSE line

\* output.lines().map(f).collect().join("\n")
MapLines(s, f(_)) == LET ls == lines(s) IN join([k \in DOMAIN ls |-> f(ls[k])])

\* empty_cells_re `\|\s*\|`, replace_all by "|"
RECURSIVE CollapseEmptyCells(_, _)
CollapseEmptyCells(s, i) ==
    LET e(k) == SpanEnd(s, k + 1, WsChars)
        hits == {k \in i..Len(s) :
                    s[k] = "|" /\ e(k) + 1 <= Len(s) /\ s[e(k) + 1] = "|"}
    IN IF hits = {} THEN SubSeq(s, i, Len(s))
       ELSE LET k == Leftmost(hits)
            IN SubSeq(s, i, k - 1) \o <<"|">> \o CollapseEmptyCells(s, e(k) + 2)

\* empty_table_line_re `^-?\s*\|\s*\|?\s*$`
is_empty_table_line(line) ==
    LET a == IF Len(line) >= 1 /\ line[1] = "-" THEN 2 ELSE 1
        b == SpanEnd(line, a, WsChars) + 1
        c == SpanEnd(line, b + 1, WsChars) + 1
        d == IF c <= Len(line) /\ line[c] = "|" THEN SpanEnd(line, c + 1, WsChars) + 1 ELSE c
    IN b <= Len(line) /\ line[b] = "|" /\ d = Len(line) + 1

\* table_sep_re `^\|\s*[-:]+\s*\|`
is_sep_match(line) ==
    LET a == SpanEnd(line, 2, WsChars) + 1
        b == SpanEnd(line, a, {"-", ":"})
        c == SpanEnd(line, b + 1, WsChars) + 1
    IN /\ Len(line) >= 1 /\ line[1] = "|"
       /\ b >= a
       /\ c <= Len(line) /\ line[c] = "|"

\* the separator filter: `> 2` dashes
SepMinDashes == 2

\* the filter without the `else` branch that clears the two flags
RECURSIVE DropSeparatorsNoReset(_, _, _, _)
DropSeparatorsNoReset(ls, i, in_table, had_separator) ==
    IF i > Len(ls) THEN <<>>
    ELSE LET line == ls[i]
             is_row == starts_with(line, <<"|">>) /\ ends_with(line, <<"|">>)
             is_separator == /\ is_sep_match(line)
                             /\ Len(SelectSeq(line, LAMBDA c : c = "-")) > SepMinDashes
         IN IF is_row /\ is_separator /\ in_table /\ had_separator
            THEN DropSeparatorsNoReset(ls, i + 1, in_table, had_separator)
            ELSE <<line>> \o DropSeparatorsNoReset(ls, i + 1, in_table \/ is_row,
                                                   had_separator \/ (is_row /\ is_separator))

\* the filter closure of the separator pass from line i on, with its two flags
RECURSIVE DropSeparators(_, _, _, _)
DropSeparators(ls, i, in_table, had_separator) ==
    IF i > Len(ls) THEN <<>>
    ELSE LET line == ls[i]
             is_row == starts_with(line, <<"|">>) /\ ends_with(line, <<"|">>)
             is_separator == /\ is_sep_match(line)
                             /\ Len(SelectSeq(line, LAMBDA c : c = "-")) > SepMinDashes
         IN IF is_row
            THEN IF is_separator /\ in_table /\ had_separator
                 THEN DropSeparators(ls, i + 1, in_table, had_separator)
                 ELSE <<line>> \o DropSeparators(ls, i + 1, TRUE, had_separator \/ is_separator)
            ELSE <<line>> \o DropSeparators(ls, i + 1, FALSE, FALSE)

\* the text clean_markdown holds when it reaches the separator filter
markdown_before_separators(md, strip) ==
    LET s1 == remove_frontmatter(md)
        s2 == RemoveDashLines(s1, 1)
        s3 == IF strip THEN strip_markdown_urls(s2) ELSE s2
        s4 == MapLines(s3, list_single_cell)
        s5 == MapLines(s4, single_cell)
        s6 == CollapseEmptyCells(s5, 1)
        s7 == join(SelectSeq(lines(s6), LAMBDA l : ~is_empty_table_line(l)))
    IN remove_invisible(s7)

\* the text clean_markdown holds when it reaches the `\n{3,}` pass
markdown_before_collapse(md, strip) ==
    join(DropSeparators(lines(markdown_before_separators(md, strip)), 1, FALSE, FALSE))

\* clean_markdown without its final `output.trim()`
clean_markdown_untrimmed(md, strip) ==
    CollapseNewlines(markdown_before_collapse(md, strip), 1, MarkdownNewlineRun)

clean_markdown(md, strip) ==
    trim(CollapseNewlines(markdown_before_collapse(md, strip), 1, MarkdownNewlineRun))

(***************************************************************************)
(* render: the classifier and the two conversion strategies                *)
(***************************************************************************)
HtmlMarkers ==
    { <<"<", "h", "t", "m", "l">>,
      <<"<", "b", "o", "d", "y">>,
      <<"<", "!", "d", "o", "c", "t", "y", "p", "e">> }

\* the `is_html` of render
is_html(html) == \E m \in HtmlMarkers : contains(to_lowercase(html), m)

\* the ways convert_with_w3m returns Err: spawn()?, write_all()?,
\* wait_with_output()?, and the bail! on an unsuccessful exit status
W3mFailures == {"spawn", "write", "wait", "exit"}

Http == <<"h", "t", "t", "p", ":", "/", "/">>

Https == <<"h", "t", "t", "p", "s", ":", "/", "/">>

RowA == <<"L","a","b","e","l",":"," "," "," "," ","V","a","l","u","e"," ","o","n","e">>

RowB == <<"L","a","b","e","l","2",":"," "," "," ","V","a","l","u","e"," ","t","w","o">>

TwoRows == RowA \o <<"\n">> \o RowB

Notes == <<"N", "o", "t", "e", "s", ":">>

Hello == <<"H", "e", "l", "l", "o">>

\* a URL whose tail is exactly as long as the pattern asks for
LongUrl == Https \o Rep("x", StripUrlMin)

\* the texts made of at most n pieces of the set P
Texts(P, n) == UNION {{Concat(ps) : ps \in [1..k -> P]} : k \in 0..n}

\* what the external renderer may print, and what the in-process converter may return
W3mOutputs == {<<>>, Hello, TwoRows, <<" ">> \o LongUrl \o <<"\n">> \o Notes}

ConvertOutputs == {Hello, <<"|", "|", "x", "|">>, Rep("\n", 3) \o Notes}

MaxRenderPieces == 2

RenderPieces ==
    { <<"<", "H", "t", "m", "L">>, <<"<", "b", "o", "d", "y">>,
      <<"<", "!", "D", "O", "C", "T", "Y", "P", "E">>,
      <<" ">>, <<"\n">>, <<"U+200B">>, Notes, LongUrl, TwoRows }

InitRender ==
    /\ pc = "call"
    /\ content \in Texts(RenderPieces, MaxRenderPieces)
    /\ strip_urls \in BOOLEAN
    /\ text = <<>>
    /\ output = <<>>
    /\ output2 = <<>>
    /\ result = "none"
    /\ tried = <<>>
    /\ items = <<>>
    /\ layout_input = <<>>
    /\ sep_input = <<>>
    /\ table_row = FALSE
    /\ SyncIdle
    /\ PreviewIdle
    /\ SearchIdle

\* render_plain with the flag ignored
render_plain_always_strips(t, strip) == strip_long_urls(t)

\* render_plain with the trim that clean_text and clean_markdown end with
render_plain_trimmed(t, strip) == trim(IF strip THEN strip_long_urls(t) ELSE t)

render_plain(t, strip) == IF strip THEN strip_long_urls(t) ELSE t

\* render: classify; the plain branch returns at once
Render ==
    /\ pc = "call"
    /\ IF is_html(content)
       THEN /\ pc' = "w3m"
            /\ UNCHANGED <<output, result>>
       ELSE /\ output' = render_plain(content, strip_urls)
            /\ result' = "Ok"
            /\ pc' = "done"
    /\ UNCHANGED <<content, strip_urls, text, output2, tried, items, table_row, sep_input, layout_input>>
    /\ UNCHANGED sync_vars
    /\ UNCHANGED preview_vars
    /\ UNCHANGED search_vars

\* render_html with `convert_with_w3m(html)?`: the failure is propagated
W3mFailsPropagates ==
    /\ pc = "w3m"
    /\ \E why \in W3mFailures : tried' = Append(tried, <<"w3m", why>>)
    /\ result' = "Err"
    /\ pc' = "done"
    /\ UNCHANGED <<content, strip_urls, text, output, output2, items, table_row, sep_input, layout_input>>
    /\ UNCHANGED sync_vars
    /\ UNCHANGED preview_vars
    /\ UNCHANGED search_vars

\* render_html: convert_with_w3m returned Err(_), the fallback is next
W3mFails ==
    /\ pc = "w3m"
    /\ \E why \in W3mFailures : tried' = Append(tried, <<"w3m", why>>)
    /\ pc' = "convert"
    /\ UNCHANGED <<content, strip_urls, text, output, output2, result, items, table_row, sep_input, layout_input>>
    /\ UNCHANGED sync_vars
    /\ UNCHANGED preview_vars
    /\ UNCHANGED search_vars

\* render_html: convert_with_w3m returned Ok(stdout)
W3mSucceeds ==
    /\ pc = "w3m"
    /\ \E stdout \in W3mOutputs : text' = stdout
    /\ tried' = Append(tried, <<"w3m", "ok">>)
    /\ pc' = "clean"
    /\ UNCHANGED <<content, strip_urls, output, output2, result, items, table_row, sep_input, layout_input>>
    /\ UNCHANGED sync_vars
    /\ UNCHANGED preview_vars
    /\ UNCHANGED search_vars

\* render_html: `convert(html, ...)?` returned Err, which `?` propagates
ConvertFails ==
    /\ pc = "convert"
    /\ tried' = Append(tried, <<"convert", "err">>)
    /\ result' = "Err"
    /\ pc' = "done"
    /\ UNCHANGED <<content, strip_urls, text, output, output2, items, table_row, sep_input, layout_input>>
    /\ UNCHANGED sync_vars
    /\ UNCHANGED preview_vars
    /\ UNCHANGED search_vars

\* render_html: `convert(html, ...)?` returned Ok(md)
ConvertSucceeds ==
    /\ pc = "convert"
    /\ \E md \in ConvertOutputs : text' = clean_markdown(md, strip_urls)
    /\ tried' = Append(tried, <<"convert", "ok">>)
    /\ pc' = "clean"
    /\ UNCHANGED <<content, strip_urls, output, output2, result, items, table_row, sep_input, layout_input>>
    /\ UNCHANGED sync_vars
    /\ UNCHANGED preview_vars
    /\ UNCHANGED search_vars

\* render_html: `clean_text(&text, strip_urls)` and Ok(cleaned)
CleanText ==
    /\ pc = "clean"
    /\ layout_input' = clean_text_before_colors(text, strip_urls)
    /\ output' = clean_text(text, strip_urls)
    /\ result' = "Ok"
    /\ pc' = "done"
    /\ UNCHANGED <<content, strip_urls, text, output2, tried, items, table_row, sep_input>>
    /\ UNCHANGED sync_vars
    /\ UNCHANGED preview_vars
    /\ UNCHANGED search_vars

NextRender ==
    \/ Render
    \/ W3mFails
    \/ W3mSucceeds
    \/ ConvertFails
    \/ ConvertSucceeds
    \/ CleanText

SpecRender == InitRender /\ [][NextRender]_vars

(***************************************************************************)
(* strip_long_urls on its own, applied once and then to its own output     *)
(***************************************************************************)
MaxUrlPieces == 3

\* a URL whose tail is one character short of what the pattern asks for
ShortUrl == Http \o Rep("x", StripUrlMin - 1)

UrlPieces == {ShortUrl, LongUrl, Http, <<"x">>, <<" ">>, <<"\n">>}

InitUrls ==
    /\ pc = "call"
    /\ content \in Texts(UrlPieces, MaxUrlPieces)
    /\ strip_urls = TRUE
    /\ text = <<>>
    /\ output = <<>>
    /\ output2 = <<>>
    /\ result = "none"
    /\ tried = <<>>
    /\ items = <<>>
    /\ layout_input = <<>>
    /\ sep_input = <<>>
    /\ table_row = FALSE
    /\ SyncIdle
    /\ PreviewIdle
    /\ SearchIdle

StripLongUrls ==
    /\ pc = "call"
    /\ output' = strip_long_urls(content)
    /\ pc' = "again"
    /\ UNCHANGED <<content, strip_urls, text, output2, result, tried, items, table_row, sep_input, layout_input>>
    /\ UNCHANGED sync_vars
    /\ UNCHANGED preview_vars
    /\ UNCHANGED search_vars

StripAgain ==
    /\ pc = "again"
    /\ output2' = strip_long_urls(output)
    /\ pc' = "done"
    /\ UNCHANGED <<content, strip_urls, text, output, result, tried, items, table_row, sep_input, layout_input>>
    /\ UNCHANGED sync_vars
    /\ UNCHANGED preview_vars
    /\ UNCHANGED search_vars

NextUrls == StripLongUrls \/ StripAgain

SpecUrls == InitUrls /\ [][NextUrls]_vars

(***************************************************************************)
(* Properties of render                                                    *)
(***************************************************************************)
\* the lower-cased text has marker m at index i
MarkerAt(t, i, m) ==
    /\ i + Len(m) - 1 <= Len(t)
    /\ \A k \in 1..Len(m) : char_to_lowercase(t[i + k - 1]) = m[k]

Sniffed(t) == \E m \in HtmlMarkers : \E i \in 1..Len(t) : MarkerAt(t, i, m)

\* C1: an input whose lower-cased text has none of '<html', '<body',
\* '<!doctype' is returned Ok and unmodified, except that the long URLs are
\* stripped when strip_urls is set: no conversion strategy is tried, and no
\* invisible-character removal, blank-line collapsing, colouring or boxing
\* is applied.
RenderPlainPassesThrough ==
    (pc = "done" /\ ~Sniffed(content)) =>
        /\ result = "Ok"
        /\ tried = <<>>
        /\ ~strip_urls => output = content
        /\ strip_urls => output = strip_long_urls(content)

WitnessPlainPassesThrough ==
    /\ pc = "done"
    /\ ~Sniffed(content)
    /\ strip_urls
    /\ content = <<"U+200B">> \o LongUrl
    /\ output = <<"U+200B">>

W3mFailed == Len(tried) >= 1 /\ tried[1][1] = "w3m" /\ tried[1][2] \in W3mFailures

\* C2: render returns an error iff the input is classified as HTML, the
\* external renderer failed and the in-process conversion failed too; the
\* in-process converter is tried only after the external renderer has
\* failed; when the external renderer fails and the converter succeeds,
\* render returns Ok with the cleaned output.
RenderErrorIffBothFail ==
    /\ pc = "done" =>
           (result = "Err" <=> /\ Sniffed(content)
                               /\ W3mFailed
                               /\ Len(tried) = 2
                               /\ tried[2] = <<"convert", "err">>)
    /\ pc # "done" => result = "none"
    /\ \A k \in 1..Len(tried) : tried[k][1] = "convert" => (k = 2 /\ W3mFailed)
    /\ (pc = "done" /\ W3mFailed /\ Len(tried) = 2 /\ tried[2] = <<"convert", "ok">>) =>
           (result = "Ok" /\ output = clean_text(text, strip_urls))

WitnessFallbackRecovers ==
    /\ pc = "done"
    /\ tried = << <<"w3m", "spawn">>, <<"convert", "ok">> >>
    /\ result = "Ok"
    /\ output = Hello

WitnessBothFail ==
    /\ pc = "done"
    /\ tried = << <<"w3m", "exit">>, <<"convert", "err">> >>
    /\ result = "Err"

LabelA == <<"L", "a", "b", "e", "l", ":">>

LabelB == <<"L", "a", "b", "e", "l", "2", ":">>

\* out is the box of the two rows RowA and RowB: a top border, two bordered
\* rows with the colourised labels, a bottom border
IsBoxOfTwoRows(out) ==
    LET ls == lines(out)
        bar == <<"U+2502">>
    IN /\ Len(ls) = 4
       /\ starts_with(ls[1], DIM \o <<"U+250C">>)
       /\ ends_with(ls[1], <<"U+2510">> \o RESET)
       /\ \A k \in {2, 3} : starts_with(ls[k], DIM \o bar) /\ ends_with(ls[k], DIM \o bar \o RESET)
       /\ contains(ls[2], YELLOW \o LabelA \o RESET)
       /\ contains(ls[3], YELLOW \o LabelB \o RESET)
       /\ starts_with(ls[4], DIM \o <<"U+2514">>)
       /\ ends_with(ls[4], <<"U+2518">> \o RESET)

\* C7 as stated: for the plain input of two TableRow lines with
\* strip_urls = false, the output of render is the box of the two rows.
RenderPlainBoxesTwoRows ==
    (pc = "done" /\ content = TwoRows /\ ~strip_urls) => IsBoxOfTwoRows(output)

\* C7 as amended: for that plain input render returns the two lines
\* unchanged, with no border; the box of the two rows is what the same two
\* lines give when they are the external renderer's output on the HTML path.
RenderBoxesTwoRowsOnHtmlPathOnly ==
    /\ (pc = "done" /\ content = TwoRows /\ ~strip_urls) =>
           (result = "Ok" /\ output = TwoRows /\ ~IsBoxOfTwoRows(output))
    /\ (pc = "done" /\ tried = << <<"w3m", "ok">> >> /\ text = TwoRows) =>
           (result = "Ok" /\ IsBoxOfTwoRows(output))

WitnessPlainTwoRows ==
    /\ pc = "done"
    /\ content = TwoRows
    /\ ~strip_urls
    /\ is_table_row(RowA) /\ is_table_row(RowB)
    /\ output = TwoRows

PlainExpected == IF strip_urls THEN strip_long_urls(content) ELSE content

\* C8 as stated: for an input that does not match the sniff, the output is
\* the input after URL stripping and whitespace trimming, so it has no
\* leading or trailing whitespace.
RenderPlainTrims ==
    (pc = "done" /\ ~Sniffed(content)) => output = trim(PlainExpected)

\* the leading and the trailing whitespace of a text
WsPrefix(t) == SubSeq(t, 1, Len(t) - Len(trim_start(t)))

WsSuffix(t) == SubSeq(t, Len(trim_end(t)) + 1, Len(t))

\* C8 as amended: for an input that does not match the sniff, the output is
\* the input after URL stripping only; it is not trimmed, the leading and
\* trailing whitespace of the input is still there; the empty input gives
\* the empty output and an input that is one long URL gives, with
\* strip_urls, the empty string.
RenderPlainKeepsWhitespace ==
    (pc = "done" /\ ~Sniffed(content)) =>
        /\ trim(output) = trim(PlainExpected)
        /\ WsPrefix(output) = WsPrefix(PlainExpected)
        /\ WsSuffix(output) = WsSuffix(PlainExpected)
        /\ content = <<>> => output = <<>>
        /\ (strip_urls /\ content = LongUrl) => output = <<>>

WitnessPlainKeepsWhitespace ==
    /\ pc = "done"
    /\ strip_urls
    /\ content = <<" ">> \o LongUrl
    /\ output = <<" ">>

(***************************************************************************)
(* Properties of strip_long_urls                                           *)
(***************************************************************************)
\* t has, at index i, 'http://' or 'https://' followed by at least
\* StripUrlMin non-whitespace characters
LongUrlAt(t, i) ==
    \E scheme \in {Http, Https} :
        /\ At(t, i, scheme)
        /\ \A k \in (i + Len(scheme))..(i + Len(scheme) + StripUrlMin - 1) :
               k <= Len(t) /\ t[k] \notin WsChars

\* index i of t lies in a long URL: a long URL starts at or before i and
\* no whitespace separates its start from i
InLongUrl(t, i) ==
    \E j \in 1..i : LongUrlAt(t, j) /\ \A k \in j..i : t[k] \notin WsChars

\* the characters of t at the indices of S, in their order in t
Kept(t, S) ==
    [n \in 1..Cardinality(S) |->
        t[CHOOSE k \in S : Cardinality({m \in S : m <= k}) = n]]

\* t without the characters that lie in a long URL
WithoutLongUrls(t) == Kept(t, {i \in 1..Len(t) : ~InLongUrl(t, i)})

\* C3: strip_long_urls removes every 'http://' or 'https://' followed by 40
\* or more non-whitespace characters and nothing else: the output is the
\* input without the characters of its long URLs, it has no long URL left,
\* a text without a long URL (shorter URLs included) comes back unchanged,
\* and stripping the output again changes nothing.
StripRemovesExactlyLongUrls ==
    /\ pc = "again" =>
           /\ output = WithoutLongUrls(content)
           /\ \A i \in 1..Len(output) : ~LongUrlAt(output, i)
           /\ (\A i \in 1..Len(content) : ~LongUrlAt(content, i)) => output = content
    /\ pc = "done" => output2 = output

WitnessStripKeepsShortUrl ==
    /\ pc = "done"
    /\ content = ShortUrl \o <<" ">> \o LongUrl
    /\ output = ShortUrl \o <<" ">>
    /\ output2 = output

(***************************************************************************)
(* is_table_row on one line                                                *)
(***************************************************************************)
Value8 == Rep("v", TableRowMinLen - 7)

RowLabels ==
    { <<"a", "b">>, <<"a", "b", "c">>, <<"U+00C9", "a">>,
      Rep("a", LabelMaxLen), Rep("a", LabelMaxLen + 1),
      <<"a", "/", "/", "b">>, <<"a", "/", "b">>, <<"a", "@", "b", "c">> }

RowGaps == { <<>>, <<" ">>, <<" ", " ">>, <<" ", "\t">>, <<"\t", " ">> }

RowValues == { <<>>, Value8, Value8 \o <<"v">>, <<"d", ":", " ", " ">> \o Value8 }

\* lines around every boundary of the test: label \o ":" \o gap \o value
RowLines ==
    { lead \o label \o sep \o gap \o value \o trail :
        lead \in {<<>>, <<" ", " ">>}, label \in RowLabels, sep \in {<<":">>, <<>>},
        gap \in RowGaps, value \in RowValues, trail \in {<<>>, <<" ">>} }

InitRow ==
    /\ pc = "call"
    /\ content \in RowLines
    /\ strip_urls = FALSE
    /\ text = <<>>
    /\ output = <<>>
    /\ output2 = <<>>
    /\ result = "none"
    /\ tried = <<>>
    /\ items = <<>>
    /\ layout_input = <<>>
    /\ sep_input = <<>>
    /\ table_row = FALSE
    /\ SyncIdle
    /\ PreviewIdle
    /\ SearchIdle

IsTableRow ==
    /\ pc = "call"
    /\ table_row' = is_table_row(content)
    /\ pc' = "done"
    /\ UNCHANGED <<content, strip_urls, text, output, output2, result, tried, items, sep_input, layout_input>>
    /\ UNCHANGED sync_vars
    /\ UNCHANGED preview_vars
    /\ UNCHANGED search_vars

NextRow == IsTableRow

SpecRow == InitRow /\ [][NextRow]_vars

\* the index of the first colon of t, 0 when t has none
FirstColon(t) ==
    IF \E i \in 1..Len(t) : t[i] = ":"
    THEN CHOOSE i \in 1..Len(t) : t[i] = ":" /\ \A j \in 1..(i - 1) : t[j] # ":"
    ELSE 0

\* conditions 1 to 3 of the TableRow test on the trimmed line t (lengths in bytes)
RowLengthOk(t) == byte_len(t) >= TableRowMinLen

RowHasColon(t) == FirstColon(t) > 0

RowLabelOk(t) ==
    LET label == SubSeq(t, 1, FirstColon(t) - 1)
    IN /\ byte_len(label) >= LabelMinLen
       /\ byte_len(label) <= LabelMaxLen
       /\ \A i \in 1..(Len(label) - 1) : ~(label[i] = "/" /\ label[i + 1] = "/")
       /\ \A i \in 1..Len(label) : label[i] # "@"

\* t has non-blank content after index i
HasContentAfter(t, i) == \E k \in (i + 1)..Len(t) : t[k] \notin WsChars

\* condition 4 as the spec states it: a gap of at least one space (or a
\* space followed by a tab) after the first colon, before non-blank content
RowGapOfOneSpace(t) ==
    LET c == FirstColon(t)
    IN c + 1 <= Len(t) /\ t[c + 1] = " " /\ HasContentAfter(t, c + 1)

\* condition 4 as the code has it: two spaces, or a space and a tab
RowGapOfTwo(t) ==
    LET c == FirstColon(t)
    IN /\ c + 2 <= Len(t)
       /\ t[c + 1] = " "
       /\ t[c + 2] \in {" ", "\t"}
       /\ HasContentAfter(t, c + 2)

\* C4 as stated: a line is a TableRow iff the trimmed line is at least 15
\* long, has a colon, its label is 3 to 30 long without '//' or '@', and
\* the text after the first colon has a gap of at least one space (or a
\* space followed by a tab) before non-blank content.
TableRowIffOneSpaceGap ==
    pc = "done" =>
        (table_row <=> /\ RowLengthOk(trim(content))
                       /\ RowHasColon(trim(content))
                       /\ RowLabelOk(trim(content))
                       /\ RowGapOfOneSpace(trim(content)))

\* C4 as amended: the same four conditions, lengths counted in bytes, with
\* the gap being at least two characters: two spaces, or a space followed
\* by a tab, right after the first colon and before non-blank content.  A
\* line that fails any one of the four is not a TableRow.
TableRowIffTwoCharGap ==
    pc = "done" =>
        (table_row <=> /\ RowLengthOk(trim(content))
                       /\ RowHasColon(trim(content))
                       /\ RowLabelOk(trim(content))
                       /\ RowGapOfTwo(trim(content)))

WitnessLongestLabelRow ==
    /\ pc = "done"
    /\ content = Rep("a", LabelMaxLen) \o <<":", " ", "\t">> \o Value8
    /\ table_row

(***************************************************************************)
(* add_colors on a text of a few lines                                     *)
(***************************************************************************)
MaxExtraLines == 3

Plain5 == <<"p", "l", "a", "i", "n">>

\* the first line of the text: one of these, after one of the indents
ColorBodies == { <<>>, Plain5, Notes, RowA, <<"I", "M", " ", "N", "O">> }

ColorIndents == { <<>>, Rep(" ", CenteredMinIndent + 1) }

\* the lines that may follow the first one
ExtraLines == { RowB, <<>>, <<" ">>, Notes }

InitColors ==
    /\ pc = "call"
    /\ content \in { indent \o body : indent \in ColorIndents, body \in ColorBodies }
    /\ strip_urls = FALSE
    /\ text = <<>>
    /\ output = <<>>
    /\ output2 = <<>>
    /\ result = "none"
    /\ tried = <<>>
    /\ items = <<>>
    /\ layout_input = <<>>
    /\ sep_input = <<>>
    /\ table_row = FALSE
    /\ SyncIdle
    /\ PreviewIdle
    /\ SearchIdle

\* the caller's text grows by one line
AppendLine ==
    /\ pc = "call"
    /\ Len(SelectSeq(content, LAMBDA c : c = "\n")) < MaxExtraLines
    /\ \E l \in ExtraLines : content' = content \o <<"\n">> \o l
    /\ UNCHANGED <<pc, strip_urls, text, output, output2, result, tried, items, table_row, sep_input, layout_input>>
    /\ UNCHANGED sync_vars
    /\ UNCHANGED preview_vars
    /\ UNCHANGED search_vars

AddColors ==
    /\ pc = "call"
    /\ items' = add_colors_result(content)
    /\ output' = add_colors(content)
    /\ pc' = "done"
    /\ UNCHANGED <<content, strip_urls, text, output2, result, tried, table_row, sep_input, layout_input>>
    /\ UNCHANGED sync_vars
    /\ UNCHANGED preview_vars
    /\ UNCHANGED search_vars

NextColors == AppendLine \/ AddColors

SpecColors == InitColors /\ [][NextColors]_vars

(***************************************************************************)
(* Properties of add_colors                                                *)
(***************************************************************************)
IsRowLine(l) == is_table_row(l)

IsBlankLine(l) == \A k \in 1..Len(l) : l[k] \in WsChars

\* the first and the last line of the maximal run of TableRow or blank
\* lines around line i (itself TableRow or blank)
RunFirst(ls, i) ==
    CHOOSE a \in 1..i :
        /\ \A k \in a..i : IsRowLine(ls[k]) \/ IsBlankLine(ls[k])
        /\ a = 1 \/ ~(IsRowLine(ls[a - 1]) \/ IsBlankLine(ls[a - 1]))

RunLast(ls, i) ==
    CHOOSE b \in i..Len(ls) :
        /\ \A k \in i..b : IsRowLine(ls[k]) \/ IsBlankLine(ls[k])
        /\ b = Len(ls) \/ ~(IsRowLine(ls[b + 1]) \/ IsBlankLine(ls[b + 1]))

\* the indices of the TableRow lines of the run around line i
RunRows(ls, i) == {k \in RunFirst(ls, i)..RunLast(ls, i) : IsRowLine(ls[k])}

\* line i is taken into a box: its run has at least two TableRow lines and
\* it is not before the first of them
InBox(ls, i) ==
    /\ IsRowLine(ls[i]) \/ IsBlankLine(ls[i])
    /\ Cardinality(RunRows(ls, i)) >= 2
    /\ \E k \in RunRows(ls, i) : k <= i

\* the elements of a set of line indices, in increasing order
RECURSIVE Ascending(_)
Ascending(S) ==
    IF S = {} THEN <<>>
    ELSE LET m == CHOOSE x \in S : \A y \in S : x <= y
         IN <<m>> \o Ascending(S \ {m})

\* what line i contributes to the result vector
Emitted(ls, i) ==
    IF ~InBox(ls, i) THEN <<color_line(ls[i])>>
    ELSE IF \A k \in RunRows(ls, i) : i <= k
    THEN LET rows == Ascending(RunRows(ls, i))
         IN <<format_table([k \in DOMAIN rows |-> ls[rows[k]]])>>
    ELSE <<>>

\* the number of lines of a text that is not empty
LineCount(t) == Len(SelectSeq(t, LAMBDA c : c = "\n")) + 1

\* C5: a block started by a TableRow line extends over the following
\* TableRow and blank lines up to the first line that is neither; with
\* n >= 2 TableRow lines it is emitted as one box of n + 2 lines, the rows in
\* their order and the blank lines dropped, and the scan resumes at the
\* line that stopped the block; with one TableRow line no box is emitted,
\* the line gets the header / section-title / plain treatment and the
\* blank lines after it are emitted unchanged.
TableBlocksAreGreedy ==
    pc = "done" =>
        LET ls == lines(content)
        IN /\ items = Concat([i \in DOMAIN ls |-> Emitted(ls, i)])
           /\ output = join(items)
           /\ \A i \in DOMAIN ls :
                  (InBox(ls, i) /\ \A k \in RunRows(ls, i) : i <= k) =>
                      LET box == Emitted(ls, i)[1]
                      IN /\ LineCount(box) = Cardinality(RunRows(ls, i)) + 2
                         /\ starts_with(box, DIM \o <<"U+250C">>)
                         /\ ends_with(box, <<"U+2518">> \o RESET)
           /\ \A i \in DOMAIN ls :
                  (IsBlankLine(ls[i]) /\ Cardinality(RunRows(ls, i)) < 2) =>
                      Emitted(ls, i) = <<ls[i]>>

WitnessBoxSkipsBlank ==
    /\ pc = "done"
    /\ content = RowA \o <<"\n", "\n">> \o RowB \o <<"\n">> \o Notes
    /\ Len(items) = 2
    /\ LineCount(items[1]) = 4
    /\ items[2] = BOLD \o YELLOW \o Notes \o RESET

WitnessLoneRowKeepsBlanks ==
    /\ pc = "done"
    /\ content = RowA \o <<"\n", " ", "\n">> \o Notes
    /\ items = <<RowA, <<" ">>, BOLD \o YELLOW \o Notes \o RESET>>

(***************************************************************************)
(* add_colors on a single line, around every boundary of its tests         *)
(***************************************************************************)
HeaderBodies ==
    { <<>>, Plain5, Notes, Notes \o <<" ">>, RowA,
      <<"N", "o", " ", " ", "t", "e", "s", ":">>,
      <<"I", "M", " ", "N", "O">>,
      <<"A", "B", " ", "C", "D", ":">>,
      <<"A", "B", " ", "C">>,
      <<"A", "B", " ", "1", "2">>,
      <<"A", "1", "B", " ", "C", "-", "D">>,
      <<"A", "b", " ", "C", "D">>,
      <<"A", "B">>,
      <<"U+00C9", " ", "U+00C9">>,
      <<"U+00C9", "U+00C9", " ", "A", "B">>,
      <<"U+00E9", "U+00E9", " ", "A", "B">>,
      Rep("s", SectionMaxLen - 2) \o <<":">>,
      Rep("s", SectionMaxLen - 1) \o <<":">>,
      <<"A", "A", " ">> \o Rep("B", HeaderMaxLen - 3),
      <<"A", "A", " ">> \o Rep("B", HeaderMaxLen - 2) }

HeaderIndents ==
    { <<>>, <<" ">>, <<"\t">>, Rep(" ", CenteredMinIndent), Rep(" ", CenteredMinIndent + 1) }

InitHeader ==
    /\ pc = "call"
    /\ content \in { indent \o body \o trail :
                       indent \in HeaderIndents, body \in HeaderBodies,
                       trail \in {<<>>, <<" ">>} }
    /\ strip_urls = FALSE
    /\ text = <<>>
    /\ output = <<>>
    /\ output2 = <<>>
    /\ result = "none"
    /\ tried = <<>>
    /\ items = <<>>
    /\ layout_input = <<>>
    /\ sep_input = <<>>
    /\ table_row = FALSE
    /\ SyncIdle
    /\ PreviewIdle
    /\ SearchIdle

NextHeader == AddColors

SpecHeader == InitHeader /\ [][NextHeader]_vars

\* the number of alphabetic characters of a word
LetterCount(w) == Cardinality({k \in 1..Len(w) : is_alphabetic(w[k])})

\* every alphabetic character of w is an upper-case one
AllLettersUpper(w) ==
    \A k \in 1..Len(w) : is_alphabetic(w[k]) => char_to_uppercase(w[k]) = w[k]

\* the Header test as the spec states it (line lengths in bytes, the
\* letters of a word counted as characters)
HeaderTest(line) ==
    LET t == trim(line)
        indent == byte_len(line) - byte_len(trim_start(line))
        words == split_whitespace(t)
    IN /\ byte_len(t) > 0
       /\ byte_len(t) <= HeaderMaxLen
       /\ \/ indent > CenteredMinIndent /\ byte_len(t) < CenteredMaxLen
          \/ /\ Len(words) >= CapsMinWords
             /\ \A k \in 1..Len(words) :
                    LetterCount(words[k]) >= CapsMinLetters /\ AllLettersUpper(words[k])

\* the SectionTitle test as the spec states it
SectionTest(line) ==
    LET t == trim(line)
    IN /\ Len(t) > 0 /\ t[Len(t)] = ":"
       /\ byte_len(t) < SectionMaxLen
       /\ \A k \in 1..(Len(line) - 1) : ~(line[k] = " " /\ line[k + 1] = " ")

\* C6: a line that is not emitted inside a box gets exactly one treatment:
\* Header (bold+cyan, trailing reset) iff the Header test holds; otherwise
\* SectionTitle (bold+yellow, trailing reset) iff the SectionTitle test
\* holds; otherwise it is emitted unchanged.  A line that passes both tests
\* is styled as Header only.
OneTreatmentPerLine ==
    (pc = "done" /\ content # <<>>) =>
        output = IF HeaderTest(content) THEN BOLD \o CYAN \o content \o RESET
                 ELSE IF SectionTest(content) THEN BOLD \o YELLOW \o content \o RESET
                 ELSE content

(***************************************************************************)
(* clean_markdown, applied once and then to its own output                 *)
(***************************************************************************)
MaxMdPieces == 4

MdPieces ==
    { <<"\n">>, <<"\n", "\n">>, <<" ">>, <<"x">>, <<"|">>, Dashes3, LongUrl }

InitMd ==
    /\ pc = "call"
    /\ content \in Texts(MdPieces, MaxMdPieces)
    /\ strip_urls \in BOOLEAN
    /\ text = <<>>
    /\ output = <<>>
    /\ output2 = <<>>
    /\ result = "none"
    /\ tried = <<>>
    /\ items = <<>>
    /\ layout_input = <<>>
    /\ sep_input = <<>>
    /\ table_row = FALSE
    /\ SyncIdle
    /\ PreviewIdle
    /\ SearchIdle

\* sep_input and text are what clean_markdown holds when it reaches the
\* separator filter and the `\n{3,}` pass
CleanMarkdown ==
    /\ pc = "call"
    /\ sep_input' = markdown_before_separators(content, strip_urls)
    /\ text' = markdown_before_collapse(content, strip_urls)
    /\ output' = clean_markdown(content, strip_urls)
    /\ pc' = "again"
    /\ UNCHANGED <<content, strip_urls, output2, result, tried, items, table_row, layout_input>>
    /\ UNCHANGED sync_vars
    /\ UNCHANGED preview_vars
    /\ UNCHANGED search_vars

CleanMarkdownAgain ==
    /\ pc = "again"
    /\ output2' = clean_markdown(output, strip_urls)
    /\ pc' = "done"
    /\ UNCHANGED <<content, strip_urls, text, output, result, tried, items, table_row, sep_input, layout_input>>
    /\ UNCHANGED sync_vars
    /\ UNCHANGED preview_vars
    /\ UNCHANGED search_vars

NextMd == CleanMarkdown \/ CleanMarkdownAgain

SpecMd == InitMd /\ [][NextMd]_vars

HasChar(t, set) == \E k \in 1..Len(t) : t[k] \in set

\* a text none of the rewriting steps has anything to act on, now or after
\* an earlier step: no '|', no '---', no invisible character, no carriage
\* return and, when strip_urls is set, no '[' and no '<'
Tame(t, strip) ==
    /\ ~HasChar(t, {"|", "\r"} \cup InvisibleChars)
    /\ \A k \in 1..(Len(t) - 2) : ~(t[k] = "-" /\ t[k + 1] = "-" /\ t[k + 2] = "-")
    /\ strip => ~HasChar(t, {"[", "<"})

WitnessTameTextCollapsed ==
    /\ pc = "done"
    /\ Tame(content, strip_urls)
    /\ content = <<"x", "\n", "\n", "\n", "x">>
    /\ output = <<"x", "\n", "\n", "x">>
    /\ output2 = output

\* t has three newlines in a row
HasNewlineRun(t) ==
    \E k \in 1..(Len(t) - 2) : t[k] = "\n" /\ t[k + 1] = "\n" /\ t[k + 2] = "\n"

\* t without every newline that follows two newlines
CapNewlineRuns(t) ==
    Kept(t, {i \in 1..Len(t) :
                ~(i >= 3 /\ t[i] = "\n" /\ t[i - 1] = "\n" /\ t[i - 2] = "\n")})

\* C10: the output of clean_markdown has no run of three or more newlines:
\* every such run that reaches the `\n{3,}` pass is replaced by exactly two
\* newlines and the final trim does not bring one back.
NoNewlineRunSurvives ==
    /\ pc \in {"again", "done"} =>
           /\ ~HasNewlineRun(output)
           /\ output = trim(CapNewlineRuns(text))
    /\ pc = "done" => ~HasNewlineRun(output2)

WitnessNewlineRunCollapsed ==
    /\ pc = "again"
    /\ content = <<"x", "\n", "\n", "\n", "\n", "x">>
    /\ HasNewlineRun(text)
    /\ output = <<"x", "\n", "\n", "x">>

(***************************************************************************)
(* clean_markdown on list items that hold a single-cell table row          *)
(***************************************************************************)
MaxCellLines == 3

\* a list marker and a single cell with the text t between the paddings l and r
ListCell(marker, l, t, r) == marker \o <<"|">> \o l \o t \o r \o <<"|">>

CellLines ==
    { <<"a">>, <<"-", " ", "b">>,
      ListCell(<<"-", " ">>, <<" ">>, <<"s", "o", " ", "t">>, <<" ">>),
      ListCell(<<"-">>, <<>>, <<"x">>, <<>>),
      ListCell(<<"-", " ">>, <<" ">>, <<"-">>, <<" ">>),
      ListCell(<<"-", " ">>, <<" ">>, <<>>, <<" ">>) }

InitCells ==
    /\ pc = "call"
    /\ \E n \in 1..MaxCellLines : \E ls \in [1..n -> CellLines] : content = join(ls)
    /\ strip_urls \in BOOLEAN
    /\ text = <<>>
    /\ output = <<>>
    /\ output2 = <<>>
    /\ result = "none"
    /\ tried = <<>>
    /\ items = <<>>
    /\ layout_input = <<>>
    /\ sep_input = <<>>
    /\ table_row = FALSE
    /\ SyncIdle
    /\ PreviewIdle
    /\ SearchIdle

NextCells == CleanMarkdown \/ CleanMarkdownAgain

SpecCells == InitCells /\ [][NextCells]_vars

\* index of the '|' that opens the cell of a list item '- | text |', 0 when
\* the line is not a list marker followed by a single-cell row
CellOpen(line) ==
    LET cand == {p \in 2..(Len(line) - 2) :
                    /\ line[1] = "-"
                    /\ \A k \in 2..(p - 1) : line[k] \in WsChars
                    /\ line[p] = "|"
                    /\ line[Len(line)] = "|"
                    /\ \A k \in (p + 1)..(Len(line) - 1) : line[k] # "|"}
    IN IF cand = {} THEN 0 ELSE CHOOSE p \in cand : TRUE

CellText(line) == trim(SubSeq(line, CellOpen(line) + 1, Len(line) - 1))

\* the lines the claim leaves in place of a line: the emphasized cell text
\* behind the list prefix, nothing for an empty or dashes-only cell, the line
\* itself when it is not such a list item
CellRowRewritten(line) ==
    IF CellOpen(line) = 0 THEN <<line>>
    ELSE IF \A k \in 1..Len(CellText(line)) : CellText(line)[k] \in {"-", " "} THEN <<>>
    ELSE <<SubSeq(line, 1, CellOpen(line) - 1) \o <<"*", "*">> \o CellText(line) \o <<"*", "*">>>>

\* C11: a list item holding a single-cell row '- | text |' becomes
\* '- **text**', and when the cell is empty or made of dashes and spaces the
\* row leaves no line, not even a blank one, in the result: the output is the
\* input lines, each rewritten so, joined again.
ListCellRowDroppedEntirely ==
    pc \in {"again", "done"} =>
        LET ls == lines(content)
        IN output = trim(join(Concat([k \in DOMAIN ls |-> CellRowRewritten(ls[k])])))

(***************************************************************************)
(* clean_markdown on table rows and separator rows                         *)
(***************************************************************************)
MaxSepLines == 4

\* a line that starts with a zero-width space: the empty-cell pass does not
\* see it as the continuation of a row, the separator filter sees it bare
Hidden(line) == <<"U+200B">> \o line

RowAB == <<"|", "a", "|", "b", "|">>

SepRow == <<"|", "-", "-", "-", "|", "-", "-", "-", "|">>

SepLines ==
    { <<"a">>, Hidden(RowAB), Hidden(SepRow), SepRow,
      Hidden(<<"|", "-", "-", "|">>), Hidden(<<"|", "-", "-", "-", "|", " ">>) }

InitSeps ==
    /\ pc = "call"
    /\ \E n \in 1..MaxSepLines : \E ls \in [1..n -> SepLines] : content = join(ls)
    /\ strip_urls \in BOOLEAN
    /\ text = <<>>
    /\ output = <<>>
    /\ output2 = <<>>
    /\ result = "none"
    /\ tried = <<>>
    /\ items = <<>>
    /\ layout_input = <<>>
    /\ sep_input = <<>>
    /\ table_row = FALSE
    /\ SyncIdle
    /\ PreviewIdle
    /\ SearchIdle

NextSeps == CleanMarkdown \/ CleanMarkdownAgain

SpecSeps == InitSeps /\ [][NextSeps]_vars

\* the line starts and ends with '|'
StartsEndsWithBar(l) == Len(l) >= 1 /\ l[1] = "|" /\ l[Len(l)] = "|"

\* a table row that opens with '|', optional spaces, dashes/colons, optional
\* spaces, '|' and has more than 2 dashes
IsSeparatorRow(l) ==
    /\ StartsEndsWithBar(l)
    /\ \E a \in 2..Len(l) : \E b \in a..Len(l) : \E c \in (b + 1)..Len(l) :
           /\ \A k \in 2..(a - 1) : l[k] \in WsChars
           /\ \A k \in a..b : l[k] \in {"-", ":"}
           /\ \A k \in (b + 1)..(c - 1) : l[k] \in WsChars
           /\ l[c] = "|"
    /\ Cardinality({k \in 1..Len(l) : l[k] = "-"}) > 2

\* lines j..i all start and end with '|'
SameRun(ls, j, i) == \A k \in j..i : StartsEndsWithBar(ls[k])

AtMostOneSeparatorPerRun(ls) ==
    \A i \in DOMAIN ls : \A j \in DOMAIN ls :
        (i < j /\ IsSeparatorRow(ls[i]) /\ IsSeparatorRow(ls[j])) => ~SameRun(ls, i, j)

\* line i is a separator row with an earlier separator row in its run
LaterSeparator(ls, i) ==
    /\ IsSeparatorRow(ls[i])
    /\ \E j \in 1..(i - 1) : IsSeparatorRow(ls[j]) /\ SameRun(ls, j, i)

\* the separator step drops the later separators of each run and nothing else
SeparatorStepFrame ==
    LET ls == lines(sep_input)
    IN text = join(Kept(ls, {i \in DOMAIN ls : ~LaterSeparator(ls, i)}))

\* C12 as stated: in the output of clean_markdown every run of adjacent
\* table rows has at most one separator row, the separator step having
\* dropped the later separators of each run and no other line.
OutputRunsHaveOneSeparator ==
    pc \in {"again", "done"} =>
        /\ AtMostOneSeparatorPerRun(lines(output))
        /\ SeparatorStepFrame

\* C12 as amended: in the text the separator step of clean_markdown produces
\* (before the newline collapse and the final trim) every run of adjacent
\* table rows has at most one separator row: the step keeps the first
\* separator of a run, drops every later one, drops no other line, and a
\* line that is not a table row starts a new run.
SeparatorStepRunsHaveOneSeparator ==
    pc \in {"again", "done"} =>
        /\ AtMostOneSeparatorPerRun(lines(text))
        /\ SeparatorStepFrame

WitnessSecondSeparatorDropped ==
    /\ pc = "again"
    /\ content = join(<<Hidden(RowAB), Hidden(SepRow), Hidden(SepRow), <<"a">>>>)
    /\ sep_input = join(<<RowAB, SepRow, SepRow, <<"a">>>>)
    /\ text = join(<<RowAB, SepRow, <<"a">>>>)
    /\ output = text

(***************************************************************************)
(* format_table_row on rows made of tokens and whitespace                  *)
(***************************************************************************)
MaxRowPieces == 4

RowPieces ==
    { <<"a", "b", ":">>, <<":">>, <<"1", ":">>, <<"U+00C9", ":">>, <<"x">>, <<"b">>,
      <<" ">>, <<"\t">> }

InitFormatRow ==
    /\ pc = "call"
    /\ content \in Texts(RowPieces, MaxRowPieces)
    /\ strip_urls = FALSE
    /\ text = <<>>
    /\ output = <<>>
    /\ output2 = <<>>
    /\ result = "none"
    /\ tried = <<>>
    /\ items = <<>>
    /\ layout_input = <<>>
    /\ sep_input = <<>>
    /\ table_row = FALSE
    /\ SyncIdle
    /\ PreviewIdle
    /\ SearchIdle

FormatTableRow ==
    /\ pc = "call"
    /\ output' = format_table_row(content)
    /\ pc' = "done"
    /\ UNCHANGED <<content, strip_urls, text, output2, result, tried, items, table_row, sep_input, layout_input>>
    /\ UNCHANGED sync_vars
    /\ UNCHANGED preview_vars
    /\ UNCHANGED search_vars

NextFormatRow == FormatTableRow

SpecFormatRow == InitFormatRow /\ [][NextFormatRow]_vars

\* first and last index of the whitespace-delimited token that holds index k
TokenFirst(row, k) ==
    CHOOSE a \in 1..k : /\ \A m \in a..k : row[m] \notin WsChars
                        /\ (a = 1 \/ row[a - 1] \in WsChars)

TokenLast(row, k) ==
    CHOOSE b \in k..Len(row) : /\ \A m \in k..b : row[m] \notin WsChars
                               /\ (b = Len(row) \/ row[b + 1] \in WsChars)

\* index k lies in a token that ends in ':', is longer than 1 character and
\* begins with an alphabetic character
InLabelToken(row, k) ==
    /\ row[k] \notin WsChars
    /\ row[TokenLast(row, k)] = ":"
    /\ TokenLast(row, k) > TokenFirst(row, k)
    /\ is_alphabetic(row[TokenFirst(row, k)])

\* the row with its label tokens wrapped in the label colour and reset
LabelTokensWrapped(row) ==
    Concat([k \in 1..Len(row) |->
        (IF InLabelToken(row, k) /\ TokenFirst(row, k) = k THEN YELLOW ELSE <<>>)
            \o <<row[k]>>
            \o (IF InLabelToken(row, k) /\ TokenLast(row, k) = k THEN RESET ELSE <<>>)])

\* t without its colour sequences: an ESC and what follows up to the next 'm'
Uncoloured(t) ==
    Kept(t, {k \in 1..Len(t) :
                ~\E j \in 1..k : t[j] = "ESC" /\ \A m \in j..(k - 1) : t[m] # "m"})

\* C13: format_table_row wraps exactly the whitespace-delimited tokens that
\* end in ':', are longer than 1 character and begin with an alphabetic
\* character in the label colour and reset, leaves every other token and all
\* whitespace verbatim, and the result without its colour sequences is the
\* raw row.
OnlyLabelTokensColoured ==
    pc = "done" =>
        /\ output = LabelTokensWrapped(content)
        /\ Uncoloured(output) = content

(***************************************************************************)
(* format_table on the table blocks add_colors hands to it                 *)
(***************************************************************************)
MaxBoxRows == 3

\* table rows of different widths; the last one starts with a no-break space
BoxRows ==
    { RowA, RowB,
      <<"A","b","c",":"," "," ","d","d","d","d","d","d","d","d","d","d">>,
      <<"U+00C9","a","b",":"," "," ","v","v","v","v","v","v","v","v","v","v","v","v">>,
      <<"L","i","n","k",":"," "," ","h","t","t","p",":","/","/","e","x","a","m","p","l","e">>,
      <<"U+00A0">> \o RowA }

InitBox ==
    /\ pc = "call"
    /\ \E n \in 2..MaxBoxRows : \E ls \in [1..n -> BoxRows] : content = join(ls)
    /\ strip_urls = FALSE
    /\ text = <<>>
    /\ output = <<>>
    /\ output2 = <<>>
    /\ result = "none"
    /\ tried = <<>>
    /\ items = <<>>
    /\ layout_input = <<>>
    /\ sep_input = <<>>
    /\ table_row = FALSE
    /\ SyncIdle
    /\ PreviewIdle
    /\ SearchIdle

NextBox == AddColors

SpecBox == InitBox /\ [][NextBox]_vars

\* the box_width of the block: maximum codepoint count over the rows, plus 2
BoxWidthOf(ls) ==
    (CHOOSE m \in {Len(ls[k]) : k \in DOMAIN ls} : \A k \in DOMAIN ls : Len(ls[k]) <= m) + 2

\* the padding of every row is at least 1: box_width - visual_width(row) - 1
\* is computed without going below zero
PaddingAtLeastOne(ls) == \A k \in DOMAIN ls : BoxWidthOf(ls) - Len(ls[k]) - 1 >= 1

\* the block is rendered as a box of Len(ls) + 2 lines
RenderedAsBox(ls, out) ==
    /\ Len(out) = Len(ls) + 2
    /\ \E k \in 1..Len(out[1]) : out[1][k] = "U+250C"

\* C14: in every table block rendered by format_table the padding of each
\* row is at least 1 (no underflow), and without the ANSI sequences the top
\* border, the bottom border and every row line have the same visual width,
\* box_width + 2, so the right border is aligned.
BoxBordersAligned ==
    pc = "done" =>
        LET ls == lines(content)
            out == lines(output)
        IN /\ RenderedAsBox(ls, out)
           /\ PaddingAtLeastOne(ls)
           /\ \A j \in DOMAIN out : Len(Uncoloured(out[j])) = BoxWidthOf(ls) + 2

(***************************************************************************)
(* clean_markdown on adjacent table rows: the empty-cell pass              *)
(***************************************************************************)
MaxTableLines == 3

\* rows of two cells, a row with an empty cell, and lines that are no rows
TableLines ==
    { RowAB, <<"|", "c", "|", " ", "|", "d", "|">>, <<"a">>, <<"x", "|", "|", "y">> }

InitTable ==
    /\ pc = "call"
    /\ \E n \in 1..MaxTableLines : \E ls \in [1..n -> TableLines] : content = join(ls)
    /\ strip_urls \in BOOLEAN
    /\ text = <<>>
    /\ output = <<>>
    /\ output2 = <<>>
    /\ result = "none"
    /\ tried = <<>>
    /\ items = <<>>
    /\ layout_input = <<>>
    /\ sep_input = <<>>
    /\ table_row = FALSE
    /\ SyncIdle
    /\ PreviewIdle
    /\ SearchIdle

NextTable == CleanMarkdown \/ CleanMarkdownAgain

SpecTable == InitTable /\ [][NextTable]_vars

\* the line with every '|', spaces, '|' of it replaced by one '|'
CollapsedInLine(line) == CollapseEmptyCells(line, 1)

\* C15: the empty-cell collapse works inside a line only and removes no
\* newline: the text that leaves it has the lines of the input, each with its
\* own empty cells collapsed, so two adjacent table rows stay two lines.
EmptyCellCollapseKeepsLines ==
    pc \in {"again", "done"} =>
        LET ls == lines(content)
        IN lines(sep_input) = [k \in DOMAIN ls |-> CollapsedInLine(ls[k])]

(***************************************************************************)
(* clean_text on what the external renderer printed                        *)
(***************************************************************************)
MaxCleanPieces == 4

\* the parts of a long URL, an invisible character, and whitespace
CleanPieces ==
    { <<"h", "t", "t", "p">>, <<":", "/", "/">>, Rep("x", TextUrlMin),
      <<"U+200B">>, <<" ">>, <<"\n">> }

\* render_html has the text of the external renderer and calls clean_text
InitCleanText ==
    /\ pc = "clean"
    /\ content = <<"<", "h", "t", "m", "l">>
    /\ text \in Texts(CleanPieces, MaxCleanPieces)
    /\ strip_urls \in BOOLEAN
    /\ output = <<>>
    /\ output2 = <<>>
    /\ result = "none"
    /\ tried = << <<"w3m", "ok">> >>
    /\ items = <<>>
    /\ sep_input = <<>>
    /\ layout_input = <<>>
    /\ table_row = FALSE
    /\ SyncIdle
    /\ PreviewIdle
    /\ SearchIdle

NextCleanText == CleanText

SpecCleanText == InitCleanText /\ [][NextCleanText]_vars

\* C16: with strip_urls set, the text clean_text hands to add_colors has no
\* 'http://' or 'https://' followed by 40 or more non-whitespace characters:
\* no step after the stripping re-creates a long URL.
NoLongUrlReachesLayout ==
    (pc = "done" /\ strip_urls) =>
        \A i \in 1..Len(layout_input) : ~LongUrlAt(layout_input, i)

(***************************************************************************)
(* sync: mbsync per channel, notmuch new, recent messages, notification    *)
(***************************************************************************)
\* render has not been called
RenderIdle ==
    /\ pc = "idle"
    /\ content = <<>>
    /\ strip_urls = FALSE
    /\ text = <<>>
    /\ output = <<>>
    /\ output2 = <<>>
    /\ result = "none"
    /\ tried = <<>>
    /\ items = <<>>
    /\ table_row = FALSE
    /\ sep_input = <<>>
    /\ layout_input = <<>>

ChannelKey == <<"C", "h", "a", "n", "n", "e", "l", " ">>

InboxSuffix == <<"-", "i", "n", "b", "o", "x">>

FallbackChannel == <<"-", "a">>

get_mbsync_channels(config, quick_mode) ==
    LET name(l) == trim(SubSeq(l, Len(ChannelKey) + 1, Len(l)))
        wanted(l) == /\ starts_with(l, ChannelKey)
                     /\ (quick_mode <=> ends_with(name(l), InboxSuffix))
        picked == SelectSeq(lines(config), wanted)
    IN IF picked = <<>> THEN <<FallbackChannel>>
       ELSE [k \in DOMAIN picked |-> name(picked[k])]

\* SyncStats::has_activity
has_activity(stats) == stats.new_msgs > 0 \/ stats.deleted > 0 \/ stats.flags > 0

\* the sum of new_msgs over sync_stats
RECURSIVE total_new(_)
total_new(stats) ==
    IF stats = <<>> THEN 0 ELSE Head(stats)[2].new_msgs + total_new(Tail(stats))

\* what sync prints when it is not quiet
Say(lines_printed) == IF quiet THEN printed ELSE printed \o lines_printed

Progress(label) == <<"progress", synced, Len(channels) + 1, label>>

\* the `Show sync results` block for n recent messages
ResultLines(n) ==
    IF sync_stats = <<>> /\ n = 0 THEN << <<"No changes">> >>
    ELSE [k \in DOMAIN sync_stats |-> <<"stats", sync_stats[k][1], sync_stats[k][2]>>]
             \o (IF total_new(sync_stats) > 0
                 THEN << <<"new messages", total_new(sync_stats)>> >> ELSE <<>>)

MaxConfigLines == 2

MaxRecent == 2

ConfigLines ==
    { ChannelKey \o <<"a">>, ChannelKey \o <<"a">> \o InboxSuffix,
      ChannelKey \o <<"b", " ">>, <<"S", "y", "n", "c", " ", "A", "l", "l">> }

\* what parse_mbsync_output can return for the output of one run
StatsValues == [new_msgs : 0..1, deleted : 0..1, flags : {0}]

InitSync ==
    /\ RenderIdle
    /\ sync_pc = "channels"
    /\ quiet \in BOOLEAN
    /\ quick \in BOOLEAN
    /\ \/ mbsyncrc = [ok |-> FALSE, text |-> <<>>]
       \/ \E n \in 0..MaxConfigLines : \E ls \in [1..n -> ConfigLines] :
              mbsyncrc = [ok |-> TRUE, text |-> join(ls)]
    /\ channels = <<>>
    /\ synced = 0
    /\ sync_stats = <<>>
    /\ new_messages = 0
    /\ commands = <<>>
    /\ exits = <<>>
    /\ printed = <<>>
    /\ sync_result = "none"
    /\ PreviewIdle
    /\ SearchIdle

\* `get_mbsync_channels(quick)?` when ~/.mbsyncrc cannot be read
GetChannelsFails ==
    /\ sync_pc = "channels"
    /\ ~mbsyncrc.ok
    /\ sync_result' = "Err"
    /\ sync_pc' = "done"
    /\ UNCHANGED <<quiet, quick, mbsyncrc, channels, synced, sync_stats, new_messages,
                   commands, exits, printed>>
    /\ UNCHANGED render_vars
    /\ UNCHANGED preview_vars
    /\ UNCHANGED search_vars

GetChannels ==
    /\ sync_pc = "channels"
    /\ mbsyncrc.ok
    /\ channels' = get_mbsync_channels(mbsyncrc.text, quick)
    /\ sync_pc' = "mbsync"
    /\ UNCHANGED <<quiet, quick, mbsyncrc, synced, sync_stats, new_messages,
                   commands, exits, printed, sync_result>>
    /\ UNCHANGED render_vars
    /\ UNCHANGED preview_vars
    /\ UNCHANGED search_vars

\* the loop body for the next channel: `.output()` could not run mbsync
MbsyncNotRun ==
    /\ sync_pc = "mbsync"
    /\ synced < Len(channels)
    /\ commands' = Append(commands, <<"mbsync", channels[synced + 1]>>)
    /\ exits' = Append(exits, "spawn")
    /\ printed' = Say(<<Progress(<<"Syncing", channels[synced + 1]>>)>>)
    /\ sync_result' = "Err"
    /\ sync_pc' = "done"
    /\ UNCHANGED <<quiet, quick, mbsyncrc, channels, synced, sync_stats, new_messages>>
    /\ UNCHANGED render_vars
    /\ UNCHANGED preview_vars
    /\ UNCHANGED search_vars

\* the loop body with the bail! left out: a failed run is skipped
MbsyncFailsSkipped ==
    /\ sync_pc = "mbsync"
    /\ synced < Len(channels)
    /\ commands' = Append(commands, <<"mbsync", channels[synced + 1]>>)
    /\ exits' = Append(exits, "fail")
    /\ printed' = Say(<<Progress(<<"Syncing", channels[synced + 1]>>),
                        <<"failed", "mbsync", channels[synced + 1]>>>>)
    /\ synced' = synced + 1
    /\ UNCHANGED <<quiet, quick, mbsyncrc, channels, sync_stats, new_messages,
                   sync_pc, sync_result>>
    /\ UNCHANGED render_vars
    /\ UNCHANGED preview_vars
    /\ UNCHANGED search_vars

\* the loop body: mbsync exited with a failure status, bail!
MbsyncFails ==
    /\ sync_pc = "mbsync"
    /\ synced < Len(channels)
    /\ commands' = Append(commands, <<"mbsync", channels[synced + 1]>>)
    /\ exits' = Append(exits, "fail")
    /\ printed' = Say(<<Progress(<<"Syncing", channels[synced + 1]>>),
                        <<"failed", "mbsync", channels[synced + 1]>>>>)
    /\ sync_result' = "Err"
    /\ sync_pc' = "done"
    /\ UNCHANGED <<quiet, quick, mbsyncrc, channels, synced, sync_stats, new_messages>>
    /\ UNCHANGED render_vars
    /\ UNCHANGED preview_vars
    /\ UNCHANGED search_vars

\* the loop body: mbsync exited successfully, its stats are kept if any
MbsyncSucceeds ==
    /\ sync_pc = "mbsync"
    /\ synced < Len(channels)
    /\ commands' = Append(commands, <<"mbsync", channels[synced + 1]>>)
    /\ exits' = Append(exits, "ok")
    /\ printed' = Say(<<Progress(<<"Syncing", channels[synced + 1]>>)>>)
    /\ \E stats \in StatsValues :
           sync_stats' = IF has_activity(stats)
                         THEN Append(sync_stats, <<channels[synced + 1], stats>>)
                         ELSE sync_stats
    /\ synced' = synced + 1
    /\ UNCHANGED <<quiet, quick, mbsyncrc, channels, new_messages, sync_pc, sync_result>>
    /\ UNCHANGED render_vars
    /\ UNCHANGED preview_vars
    /\ UNCHANGED search_vars

\* after the loop: `.output()` could not run notmuch new
NotmuchNewNotRun ==
    /\ sync_pc = "mbsync"
    /\ synced = Len(channels)
    /\ commands' = Append(commands, <<"notmuch", "new">>)
    /\ exits' = Append(exits, "spawn")
    /\ printed' = Say(<<Progress(<<"Indexing">>)>>)
    /\ sync_result' = "Err"
    /\ sync_pc' = "done"
    /\ UNCHANGED <<quiet, quick, mbsyncrc, channels, synced, sync_stats, new_messages>>
    /\ UNCHANGED render_vars
    /\ UNCHANGED preview_vars
    /\ UNCHANGED search_vars

NotmuchNewFails ==
    /\ sync_pc = "mbsync"
    /\ synced = Len(channels)
    /\ commands' = Append(commands, <<"notmuch", "new">>)
    /\ exits' = Append(exits, "fail")
    /\ printed' = Say(<<Progress(<<"Indexing">>), <<"failed", "notmuch">>>>)
    /\ sync_result' = "Err"
    /\ sync_pc' = "done"
    /\ UNCHANGED <<quiet, quick, mbsyncrc, channels, synced, sync_stats, new_messages>>
    /\ UNCHANGED render_vars
    /\ UNCHANGED preview_vars
    /\ UNCHANGED search_vars

NotmuchNewSucceeds ==
    /\ sync_pc = "mbsync"
    /\ synced = Len(channels)
    /\ commands' = Append(commands, <<"notmuch", "new">>)
    /\ exits' = Append(exits, "ok")
    /\ printed' = Say(<<Progress(<<"Indexing">>), <<"clear line">>>>)
    /\ sync_pc' = "recent"
    /\ UNCHANGED <<quiet, quick, mbsyncrc, channels, synced, sync_stats, new_messages,
                   sync_result>>
    /\ UNCHANGED render_vars
    /\ UNCHANGED preview_vars
    /\ UNCHANGED search_vars

\* parse_new_messages: get_recent_messages gives n messages; then the results
\* are shown and, without a new message, sync returns Ok
RecentMessages(how, n) ==
    /\ sync_pc = "recent"
    /\ commands' = Append(commands, <<"notmuch", "search">>)
    /\ exits' = Append(exits, how)
    /\ new_messages' = n
    /\ printed' = Say(ResultLines(n))
    /\ IF n > 0
       THEN sync_pc' = "notify" /\ UNCHANGED sync_result
       ELSE sync_pc' = "done" /\ sync_result' = "Ok"
    /\ UNCHANGED <<quiet, quick, mbsyncrc, channels, synced, sync_stats>>
    /\ UNCHANGED render_vars
    /\ UNCHANGED preview_vars
    /\ UNCHANGED search_vars

\* get_recent_messages returned Err, or Ok of an empty list for a failed search
RecentUnavailable == \E how \in {"spawn", "fail"} : RecentMessages(how, 0)

RecentListed == \E n \in 0..MaxRecent : RecentMessages("ok", n)

\* notify: the notifier was run, whatever its exit status
NotifySent ==
    /\ sync_pc = "notify"
    /\ commands' = Append(commands, <<"notify-send">>)
    /\ \E how \in {"ok", "fail"} : exits' = Append(exits, how)
    /\ sync_result' = "Ok"
    /\ sync_pc' = "done"
    /\ UNCHANGED <<quiet, quick, mbsyncrc, channels, synced, sync_stats, new_messages, printed>>
    /\ UNCHANGED render_vars
    /\ UNCHANGED preview_vars
    /\ UNCHANGED search_vars

\* notify: `.output()` could not run the notifier
NotifyNotRun ==
    /\ sync_pc = "notify"
    /\ commands' = Append(commands, <<"notify-send">>)
    /\ exits' = Append(exits, "spawn")
    /\ sync_result' = "Err"
    /\ sync_pc' = "done"
    /\ UNCHANGED <<quiet, quick, mbsyncrc, channels, synced, sync_stats, new_messages, printed>>
    /\ UNCHANGED render_vars
    /\ UNCHANGED preview_vars
    /\ UNCHANGED search_vars

NextSync ==
    \/ GetChannelsFails
    \/ GetChannels
    \/ MbsyncNotRun
    \/ MbsyncFails
    \/ MbsyncSucceeds
    \/ NotmuchNewNotRun
    \/ NotmuchNewFails
    \/ NotmuchNewSucceeds
    \/ RecentUnavailable
    \/ RecentListed
    \/ NotifySent
    \/ NotifyNotRun

SpecSync == InitSync /\ [][NextSync]_vars

(***************************************************************************)
(* Properties of sync                                                      *)
(***************************************************************************)
\* the k-th command of a run over the channel list chs: one mbsync per
\* channel in list order, then notmuch new, the query for recent messages,
\* and the notification
CommandAt(chs, k) ==
    IF k <= Len(chs) THEN <<"mbsync", chs[k]>>
    ELSE IF k = Len(chs) + 1 THEN <<"notmuch", "new">>
    ELSE IF k = Len(chs) + 2 THEN <<"notmuch", "search">>
    ELSE <<"notify-send">>

\* C17: the channels are synced one at a time in list order and notmuch new
\* runs only after every mbsync run exited successfully; the first failing
\* mbsync ends sync with an error and nothing is run after it; the
\* notification is sent only after notmuch new succeeded and only for a
\* non-empty list of recent messages; quiet only silences the output: the
\* commands run, and whether the notification is sent, follow from the
\* commands' outcomes alone.
SyncRunsCommandsInOrder ==
    /\ Len(exits) = Len(commands)
    /\ Len(commands) <= Len(channels) + 3
    /\ \A k \in DOMAIN commands : commands[k] = CommandAt(channels, k)
    /\ \A k \in 1..(Len(commands) - 1) : exits[k] = "ok"
    /\ \A k \in DOMAIN commands :
           (k <= Len(channels) + 1 /\ exits[k] # "ok") =>
               sync_pc = "done" /\ sync_result = "Err"
    /\ Len(commands) = Len(channels) + 3 => new_messages > 0
    /\ quiet => printed = <<>>
    /\ (sync_pc = "done" /\ sync_result = "Ok") =>
           Len(commands) = Len(channels) + 2 + (IF new_messages > 0 THEN 1 ELSE 0)

WitnessQuietSyncNotifies ==
    /\ sync_pc = "done"
    /\ sync_result = "Ok"
    /\ quiet
    /\ Len(channels) = 2
    /\ Len(commands) = 5
    /\ commands[5] = <<"notify-send">>

WitnessFirstMbsyncFailureAborts ==
    /\ sync_pc = "done"
    /\ sync_result = "Err"
    /\ Len(channels) = 2
    /\ commands = << <<"mbsync", channels[1]>> >>
    /\ exits = <<"fail">>

(***************************************************************************)
(* preview: the headers and the body of a thread, from `notmuch show`      *)
(***************************************************************************)
FormFeed == "U+000C"

HeaderOpen == <<"U+000C", "h", "e", "a", "d", "e", "r", "{">>

HeaderClose == <<"U+000C", "h", "e", "a", "d", "e", "r", "}">>

BodyOpen == <<"U+000C", "b", "o", "d", "y", "{">>

BodyClose == <<"U+000C", "b", "o", "d", "y", "}">>

PartOpen == <<"U+000C", "p", "a", "r", "t", "{">>

PartClose == <<"U+000C", "p", "a", "r", "t", "}">>

ContentTypeKey == <<"c", "o", "n", "t", "e", "n", "t", "-", "t", "y", "p", "e", ":">>

HtmlPlaceholder ==
    <<"N", "o", "n", "-", "t", "e", "x", "t", " ", "p", "a", "r", "t", ":", " ", "t",
      "e", "x", "t", "/", "h", "t", "m", "l">>

\* `line.split("content-type:").nth(1)`, then the first word of it; the
\* type found before when the line has no such key
content_type_of(line, before) ==
    LET n == Len(ContentTypeKey)
        hits == {k \in 1..Len(line) : At(line, k, ContentTypeKey)}
        first == Leftmost(hits)
        later == {k \in hits : k >= first + n}
        stop == IF later = {} THEN Len(line) ELSE Leftmost(later) - 1
        words == split_whitespace(SubSeq(line, first + n, stop))
    IN IF hits = {} THEN before
       ELSE IF words = <<>> THEN <<>> ELSE words[1]

\* print_body(content, content_type), as one item of the output
Body(content_text, content_type) == <<"Preview", content_text, content_type>>

IsBody(item) == item[1] = "Preview"

\* the loop body of preview for one line: the values of the loop's variables
\* and of the output after it
AfterLine(line) ==
    LET now == [in_headers |-> in_headers, in_body |-> in_body, body_type |-> body_type,
                body_content |-> body_content, headers_printed |-> headers_printed,
                body_printed |-> body_printed, has_html_only |-> has_html_only,
                shown |-> shown]
    IN IF starts_with(line, HeaderOpen)
       THEN [now EXCEPT !.in_headers = TRUE,
                        !.shown = IF headers_printed THEN shown
                                  ELSE Append(shown, <<"=== Headers ===">>)]
       ELSE IF starts_with(line, HeaderClose)
       THEN [now EXCEPT !.in_headers = FALSE, !.headers_printed = TRUE]
       ELSE IF starts_with(line, BodyOpen) THEN [now EXCEPT !.in_body = TRUE]
       ELSE IF starts_with(line, BodyClose) THEN [now EXCEPT !.in_body = FALSE]
       ELSE IF starts_with(line, PartOpen)
       THEN [now EXCEPT !.body_type = content_type_of(line, body_type)]
       ELSE IF starts_with(line, PartClose)
       THEN IF ~body_printed /\ body_content # <<>>
            THEN IF trim(body_content) = HtmlPlaceholder
                 THEN [now EXCEPT !.has_html_only = TRUE,
                                  !.body_content = <<>>, !.body_type = <<>>]
                 ELSE [now EXCEPT !.shown = Append(shown, Body(body_content, body_type)),
                                  !.body_printed = TRUE,
                                  !.body_content = <<>>, !.body_type = <<>>]
            ELSE [now EXCEPT !.body_content = <<>>, !.body_type = <<>>]
       ELSE IF starts_with(line, <<FormFeed>>) THEN now
       ELSE IF in_headers
       THEN IF \/ starts_with(line, <<"S", "u", "b", "j", "e", "c", "t", ":">>)
               \/ starts_with(line, <<"F", "r", "o", "m", ":">>)
               \/ starts_with(line, <<"T", "o", ":">>)
               \/ starts_with(line, <<"D", "a", "t", "e", ":">>)
            THEN [now EXCEPT !.shown = Append(shown, <<"header", line>>)]
            ELSE now
       ELSE IF in_body /\ ~body_printed
       THEN [now EXCEPT !.body_content = body_content \o line \o <<"\n">>]
       ELSE now

MaxPreviewLines == 5

PreviewLines ==
    { HeaderOpen, HeaderClose, BodyOpen, BodyClose, PartClose,
      PartOpen \o <<" ", "I", "D", ":", " ", "1", ",", " ", "C", "o", "n", "t", "e", "n", "t", "-",
            "t", "y", "p", "e", ":", " ", "t", "e", "x", "t", "/", "p", "l", "a", "i", "n">>,
      <<"h", "i">>, HtmlPlaceholder }

InitPreview ==
    /\ RenderIdle
    /\ SyncIdle
    /\ pv_pc = "show"
    /\ seen = <<>>
    /\ in_headers = FALSE
    /\ in_body = FALSE
    /\ body_type = <<>>
    /\ body_content = <<>>
    /\ headers_printed = FALSE
    /\ body_printed = FALSE
    /\ has_html_only = FALSE
    /\ shown = <<>>
    /\ html_only_runs = 0
    /\ pv_result = "none"
    /\ SearchIdle

\* `notmuch show` could not be run, or exited with a failure status
ShowFails ==
    /\ pv_pc = "show"
    /\ pv_pc' = "done"
    /\ pv_result' = "Err"
    /\ UNCHANGED <<seen, in_headers, in_body, body_type, body_content, headers_printed,
                   body_printed, has_html_only, shown, html_only_runs>>
    /\ UNCHANGED render_vars
    /\ UNCHANGED sync_vars
    /\ UNCHANGED search_vars

ShowSucceeds ==
    /\ pv_pc = "show"
    /\ pv_pc' = "lines"
    /\ UNCHANGED <<seen, in_headers, in_body, body_type, body_content, headers_printed,
                   body_printed, has_html_only, shown, html_only_runs, pv_result>>
    /\ UNCHANGED render_vars
    /\ UNCHANGED sync_vars
    /\ UNCHANGED search_vars

\* one turn of `for line in text.lines()`
PreviewLine ==
    /\ pv_pc = "lines"
    /\ Len(seen) < MaxPreviewLines
    /\ \E line \in PreviewLines :
           LET after == AfterLine(line)
           IN /\ seen' = Append(seen, line)
              /\ in_headers' = after.in_headers
              /\ in_body' = after.in_body
              /\ body_type' = after.body_type
              /\ body_content' = after.body_content
              /\ headers_printed' = after.headers_printed
              /\ body_printed' = after.body_printed
              /\ has_html_only' = after.has_html_only
              /\ shown' = after.shown
    /\ UNCHANGED <<pv_pc, html_only_runs, pv_result>>
    /\ UNCHANGED render_vars
    /\ UNCHANGED sync_vars
    /\ UNCHANGED search_vars

\* the end of the loop with the guard on body_printed left out of the fallback
PreviewRestAlwaysFallsBack ==
    /\ pv_pc = "lines"
    /\ LET rest == /\ ~body_printed
                   /\ body_content # <<>>
                   /\ trim(body_content) # HtmlPlaceholder
       IN /\ shown' = IF rest THEN Append(shown, Body(body_content, body_type)) ELSE shown
          /\ body_printed' = (body_printed \/ rest)
          /\ IF has_html_only
             THEN pv_pc' = "html_only" /\ UNCHANGED pv_result
             ELSE pv_pc' = "done" /\ pv_result' = "Ok"
    /\ UNCHANGED <<seen, in_headers, in_body, body_type, body_content, headers_printed,
                   has_html_only, html_only_runs>>
    /\ UNCHANGED render_vars
    /\ UNCHANGED sync_vars
    /\ UNCHANGED search_vars

\* the end of the loop: the remaining body content is printed, and without a
\* printed body an HTML-only thread goes to preview_html_only
PreviewRest ==
    /\ pv_pc = "lines"
    /\ LET rest == /\ ~body_printed
                   /\ body_content # <<>>
                   /\ trim(body_content) # HtmlPlaceholder
       IN /\ shown' = IF rest THEN Append(shown, Body(body_content, body_type)) ELSE shown
          /\ body_printed' = (body_printed \/ rest)
          /\ IF ~body_printed' /\ has_html_only
             THEN pv_pc' = "html_only" /\ UNCHANGED pv_result
             ELSE pv_pc' = "done" /\ pv_result' = "Ok"
    /\ UNCHANGED <<seen, in_headers, in_body, body_type, body_content, headers_printed,
                   has_html_only, html_only_runs>>
    /\ UNCHANGED render_vars
    /\ UNCHANGED sync_vars
    /\ UNCHANGED search_vars

\* preview_html_only: python3 could not be run
HtmlOnlyNotRun ==
    /\ pv_pc = "html_only"
    /\ html_only_runs' = html_only_runs + 1
    /\ pv_pc' = "done"
    /\ pv_result' = "Err"
    /\ UNCHANGED <<seen, in_headers, in_body, body_type, body_content, headers_printed,
                   body_printed, has_html_only, shown>>
    /\ UNCHANGED render_vars
    /\ UNCHANGED sync_vars
    /\ UNCHANGED search_vars

\* preview_html_only: python3 failed or printed nothing
HtmlOnlyEmpty ==
    /\ pv_pc = "html_only"
    /\ html_only_runs' = html_only_runs + 1
    /\ pv_pc' = "done"
    /\ pv_result' = "Ok"
    /\ UNCHANGED <<seen, in_headers, in_body, body_type, body_content, headers_printed,
                   body_printed, has_html_only, shown>>
    /\ UNCHANGED render_vars
    /\ UNCHANGED sync_vars
    /\ UNCHANGED search_vars

\* preview_html_only: the HTML part python3 printed goes to print_body
HtmlOnlyPrinted ==
    /\ pv_pc = "html_only"
    /\ html_only_runs' = html_only_runs + 1
    /\ shown' = Append(shown, Body(<<"<", "p", ">", "h", "i", "\n">>,
                                   <<"t", "e", "x", "t", "/", "h", "t", "m", "l">>))
    /\ pv_pc' = "done"
    /\ pv_result' = "Ok"
    /\ UNCHANGED <<seen, in_headers, in_body, body_type, body_content, headers_printed,
                   body_printed, has_html_only>>
    /\ UNCHANGED render_vars
    /\ UNCHANGED sync_vars
    /\ UNCHANGED search_vars

NextPreview ==
    \/ ShowFails
    \/ ShowSucceeds
    \/ PreviewLine
    \/ PreviewRest
    \/ HtmlOnlyNotRun
    \/ HtmlOnlyEmpty
    \/ HtmlOnlyPrinted

SpecPreview == InitPreview /\ [][NextPreview]_vars

(***************************************************************************)
(* Properties of preview                                                   *)
(***************************************************************************)
\* the body text of each part of the lines ls from line k on, whether or not
\* a body was printed before: the text of the lines that are inside a body
\* block, outside a header block and not control lines, up to each part end;
\* the last element is the text after the last part end
RECURSIVE PartTexts(_, _, _, _, _)
PartTexts(ls, k, hdr, bdy, acc) ==
    IF k > Len(ls) THEN <<acc>>
    ELSE IF starts_with(ls[k], HeaderOpen) THEN PartTexts(ls, k + 1, TRUE, bdy, acc)
    ELSE IF starts_with(ls[k], HeaderClose) THEN PartTexts(ls, k + 1, FALSE, bdy, acc)
    ELSE IF starts_with(ls[k], BodyOpen) THEN PartTexts(ls, k + 1, hdr, TRUE, acc)
    ELSE IF starts_with(ls[k], BodyClose) THEN PartTexts(ls, k + 1, hdr, FALSE, acc)
    ELSE IF starts_with(ls[k], PartClose)
    THEN <<acc>> \o PartTexts(ls, k + 1, hdr, bdy, <<>>)
    ELSE IF ls[k][1] = FormFeed \/ hdr \/ ~bdy THEN PartTexts(ls, k + 1, hdr, bdy, acc)
    ELSE PartTexts(ls, k + 1, hdr, bdy, acc \o ls[k] \o <<"\n">>)

IsPlaceholder(t) == trim(t) = HtmlPlaceholder

Printable(t) == t # <<>> /\ ~IsPlaceholder(t)

Bodies == SelectSeq(shown, IsBody)

\* C18: preview prints the body at most once: the body text of the first
\* part that is non-empty and not the text/html placeholder is the one
\* printed, whatever parts follow it; preview_html_only runs at most once,
\* and only when no part had such a text and the text of some closed part was
\* the placeholder.
PreviewPrintsFirstPartOnce ==
    LET parts == PartTexts(seen, 1, FALSE, FALSE, <<>>)
        closed == SubSeq(parts, 1, Len(parts) - 1)
        read == IF pv_pc = "lines" THEN closed ELSE parts
        good == {k \in DOMAIN read : Printable(read[k])}
    IN /\ Len(Bodies) <= 1
       /\ html_only_runs <= 1
       /\ good # {} => /\ Len(Bodies) = 1
                       /\ Bodies[1][2] = read[Leftmost(good)]
                       /\ html_only_runs = 0
                       /\ pv_pc # "html_only"
       /\ (good = {} /\ Bodies # <<>>) => html_only_runs = 1
       /\ (html_only_runs = 1 \/ pv_pc = "html_only") =>
              \E k \in DOMAIN closed : IsPlaceholder(closed[k])

WitnessPlaceholderThenText ==
    /\ pv_pc = "done"
    /\ pv_result = "Ok"
    /\ seen = <<BodyOpen, HtmlPlaceholder, PartClose, <<"h", "i">>, PartClose>>
    /\ Bodies = <<Body(<<"h", "i", "\n">>, <<>>)>>
    /\ has_html_only
    /\ html_only_runs = 0

WitnessHtmlOnlyFallback ==
    /\ pv_pc = "done"
    /\ seen = <<BodyOpen, HtmlPlaceholder, PartClose>>
    /\ html_only_runs = 1
    /\ Len(Bodies) = 1

(***************************************************************************)
(* search: notmuch search, fzf, and the command file for neomutt           *)
(***************************************************************************)
\* write_neomutt_cmd: the text written for a thread id
neomutt_cmd(thread_id) ==
    <<"p", "u", "s", "h", " ", "'", "<", "v", "f", "o", "l", "d", "e", "r", "-", "f",
      "r", "o", "m", "-", "q", "u", "e", "r", "y", ">">>
        \o thread_id \o <<"<", "e", "n", "t", "e", "r", ">", "'", "\n">>

\* run_fzf with a successful exit taken for granted
run_fzf_any_exit(exit, out) ==
    IF trim(out) = <<>> THEN <<>> ELSE <<trim(out)>>

\* run_fzf after fzf has ended: <<>> for None, <<selected>> for Some(selected)
run_fzf(exit, out) ==
    IF exit = "ok"
    THEN IF trim(out) = <<>> THEN <<>> ELSE <<trim(out)>>
    ELSE <<>>

\* what search writes for the Option that run_fzf returned
command_for(selected) ==
    IF selected # <<>>
    THEN LET words == split_whitespace(selected[1])
         IN IF words # <<>> /\ words[1] # <<>> THEN neomutt_cmd(words[1]) ELSE <<>>
    ELSE <<>>

\* std::fs::write(CMD_FILE, contents)?, and the return of search after it: a
\* failed write leaves the file as it was or truncated
WriteCmdFile(contents) ==
    \/ /\ cmd_file' = contents
       /\ writes' = writes + 1
       /\ sr_result' = "Ok"
    \/ /\ cmd_file' \in {cmd_file, <<>>}
       /\ UNCHANGED writes
       /\ sr_result' = "Err"

MaxFzfPieces == 3

FzfPieces == {<<"t", "1">>, <<"x">>, <<" ">>, <<"\n">>}

MailListings == {<<>>, <<"\n">>, <<"t", "1", " ", "x", "\n">>}

InitSearch ==
    /\ RenderIdle
    /\ SyncIdle
    /\ PreviewIdle
    /\ sr_pc = "list"
    /\ mail_list = <<>>
    /\ fzf_exit = "none"
    /\ fzf_stdout = <<>>
    /\ cmd_file \in {<<>>, neomutt_cmd(<<"t", "0">>)}
    /\ writes = 0
    /\ sr_result = "none"

\* get_mail_list: notmuch could not be run or failed
MailListFails ==
    /\ sr_pc = "list"
    /\ sr_pc' = "done"
    /\ sr_result' = "Err"
    /\ UNCHANGED <<mail_list, fzf_exit, fzf_stdout, cmd_file, writes>>
    /\ UNCHANGED render_vars
    /\ UNCHANGED sync_vars
    /\ UNCHANGED preview_vars

\* get_mail_list returned the lines of the listing; without a line the empty
\* command is written and search returns
MailListed ==
    /\ sr_pc = "list"
    /\ \E listing \in MailListings :
           /\ mail_list' = listing
           /\ IF lines(listing) = <<>>
              THEN sr_pc' = "done" /\ WriteCmdFile(<<>>)
              ELSE sr_pc' = "fzf" /\ UNCHANGED <<cmd_file, writes, sr_result>>
    /\ UNCHANGED <<fzf_exit, fzf_stdout>>
    /\ UNCHANGED render_vars
    /\ UNCHANGED sync_vars
    /\ UNCHANGED preview_vars

\* run_fzf: fzf could not be spawned, fed, or waited for
FzfNotRun ==
    /\ sr_pc = "fzf"
    /\ sr_pc' = "done"
    /\ sr_result' = "Err"
    /\ UNCHANGED <<mail_list, fzf_exit, fzf_stdout, cmd_file, writes>>
    /\ UNCHANGED render_vars
    /\ UNCHANGED sync_vars
    /\ UNCHANGED preview_vars

\* run_fzf returned, and search wrote the command for its selection
FzfEnds ==
    /\ sr_pc = "fzf"
    /\ \E exit \in {"ok", "fail"} : \E out \in Texts(FzfPieces, MaxFzfPieces) :
           /\ fzf_exit' = exit
           /\ fzf_stdout' = out
           /\ WriteCmdFile(command_for(run_fzf(exit, out)))
    /\ sr_pc' = "done"
    /\ UNCHANGED mail_list
    /\ UNCHANGED render_vars
    /\ UNCHANGED sync_vars
    /\ UNCHANGED preview_vars

NextSearch ==
    \/ MailListFails
    \/ MailListed
    \/ FzfNotRun
    \/ FzfEnds

SpecSearch == InitSearch /\ [][NextSearch]_vars

(***************************************************************************)
(* Properties of search                                                    *)
(***************************************************************************)
\* the first whitespace-delimited token of a text that has one
FirstToken(t) ==
    LET first == Leftmost({k \in DOMAIN t : t[k] \notin WsChars})
        stops == {k \in first..Len(t) : t[k] \in WsChars}
    IN SubSeq(t, first, IF stops = {} THEN Len(t) ELSE Leftmost(stops) - 1)

HasSelection ==
    /\ fzf_exit = "ok"
    /\ \E k \in DOMAIN fzf_stdout : fzf_stdout[k] \notin WsChars

\* C19: when search has returned Ok it has overwritten the command file
\* exactly once; the file holds the push command for the first token of what
\* fzf printed if fzf exited successfully and printed a non-blank selection,
\* and is empty in every other case, whatever it held before.
SearchOverwritesCommandFileOnce ==
    (sr_pc = "done" /\ sr_result = "Ok") =>
        /\ writes = 1
        /\ cmd_file = IF HasSelection
                      THEN <<"p", "u", "s", "h", " ", "'", "<", "v", "f", "o", "l", "d", "e", "r", "-", "f",
                             "r", "o", "m", "-", "q", "u", "e", "r", "y", ">">>
                               \o FirstToken(fzf_stdout)
                               \o <<"<", "e", "n", "t", "e", "r", ">", "'", "\n">>
                      ELSE <<>>

WitnessSelectionWritten ==
    /\ sr_pc = "done"
    /\ sr_result = "Ok"
    /\ fzf_exit = "ok"
    /\ fzf_stdout = <<"t", "1", " ", "x">>
    /\ mail_list = <<"t", "1", " ", "x", "\n">>
    /\ cmd_file = neomutt_cmd(<<"t", "1">>)

WitnessCancelClearsEarlierCommand ==
    /\ sr_pc = "done"
    /\ sr_result = "Ok"
    /\ fzf_exit = "fail"
    /\ fzf_stdout = <<"t", "1", "\n">>
    /\ writes = 1
    /\ cmd_file = <<>>

====
